---------------------------- MODULE Spec2Model ----------------------------
(***************************************************************************)
(* Analytics core of src/app.py (stock-portfolio-pro): valuation of the    *)
(* holdings, portfolio summary, blended return series, risk metrics,       *)
(* simulation, optimization, rebalancing and monthly dividend income; the  *)
(* link encoding and the CSV import of the portfolio; the session that     *)
(* keeps the position list, and the script runs that compute over it.      *)
(*                                                                         *)
(* Numbers.  The program computes with Python/numpy floats.  The model     *)
(* computes with exact rationals <<n, d>> (d > 0, lowest terms) extended   *)
(* by the three IEEE special values numpy produces on a division by zero:  *)
(* <<0,0>> is NaN, <<1,0>> is +inf, <<-1,0>> is -inf.  Rounding error is   *)
(* not modelled.                                                           *)
(***************************************************************************)
EXTENDS Integers, Sequences, FiniteSets, TLC

VARIABLES portfolio,    \* st.session_state["portfolio"]: sequence of position records
          market,       \* what the market-data gateway answers, per ticker (cached)
          fx,           \* get_exchange_rate()
          view,         \* what the last script run computed ("none" before any run)
          returns,      \* the return series handed to calculate_risk_metrics
          metrics,      \* the record calculate_risk_metrics returned
          sim,          \* the Monte Carlo run: its arguments, draws and paths
          frontier,     \* the efficient-frontier run: its arguments and result
          rebalance,    \* the rebalancing: targets, values and suggested actions
          session,      \* the rest of the session: the URL's query parameter p and
                        \* the key "restored" of st.session_state
          codec,        \* encode_portfolio / decode_portfolio: argument and result
          rng,          \* the state of numpy's process-wide random generator
          run           \* the script runs of the session: the place of the running
                        \* one, the request it serves and the request that waits

vars == <<portfolio, market, fx, view, returns, metrics, sim, frontier, rebalance,
          session, codec, rng, run>>

---------------------------------------------------------------------------
(* Exact arithmetic standing for float arithmetic                          *)

Abs(x) == IF x < 0 THEN -x ELSE x

Sign(x) == IF x < 0 THEN -1 ELSE IF x > 0 THEN 1 ELSE 0

RECURSIVE Gcd(_, _)
Gcd(a, b) == IF b = 0 THEN a ELSE Gcd(b, a % b)

NaN == <<0, 0>>

IsNaN(a) == a = NaN

IsFinite(a) == a[2] # 0

\* the rational n/d in lowest terms; d = 0 gives NaN or a signed infinity,
\* as numpy's float division does
R(n, d) ==
    IF d = 0 THEN <<Sign(n), 0>>
    ELSE LET g == Gcd(Abs(n), Abs(d))
             s == IF d < 0 THEN -1 ELSE 1
         IN  <<(s * n) \div g, (s * d) \div g>>

I(n) == <<n, 1>>

Zero == I(0)

One == I(1)

RSign(a) == Sign(a[1])

RNeg(a) == <<-a[1], a[2]>>

RAdd(a, b) ==
    IF IsNaN(a) \/ IsNaN(b) THEN NaN
    ELSE IF ~IsFinite(a) /\ ~IsFinite(b) THEN (IF a = b THEN a ELSE NaN)
    ELSE IF ~IsFinite(a) THEN a
    ELSE IF ~IsFinite(b) THEN b
    ELSE LET g == Gcd(a[2], b[2])
             l == (a[2] \div g) * b[2]
         IN  R(a[1] * (l \div a[2]) + b[1] * (l \div b[2]), l)

RSub(a, b) == RAdd(a, RNeg(b))

RMul(a, b) ==
    IF IsNaN(a) \/ IsNaN(b) THEN NaN
    ELSE IF ~IsFinite(a) \/ ~IsFinite(b)
         THEN (IF RSign(a) * RSign(b) = 0 THEN NaN ELSE <<RSign(a) * RSign(b), 0>>)
    ELSE LET g1 == Gcd(Abs(a[1]), b[2])
             g2 == Gcd(Abs(b[1]), a[2])
         IN  R((a[1] \div g1) * (b[1] \div g2), (a[2] \div g2) * (b[2] \div g1))

\* numpy/pandas division: x/0 is NaN for x = 0 and a signed infinity otherwise
RDiv(a, b) ==
    IF IsNaN(a) \/ IsNaN(b) THEN NaN
    ELSE IF ~IsFinite(b) THEN (IF IsFinite(a) THEN Zero ELSE NaN)
    ELSE IF b[1] = 0 THEN (IF IsFinite(a) THEN <<RSign(a), 0>> ELSE a)
    ELSE IF ~IsFinite(a) THEN <<RSign(a) * RSign(b), 0>>
    ELSE RMul(a, R(b[2], b[1]))

\* float comparisons: every comparison with NaN is false
RLt(a, b) == ~IsNaN(a) /\ ~IsNaN(b) /\ a # b /\ RSign(RSub(a, b)) < 0

RLe(a, b) == ~IsNaN(a) /\ ~IsNaN(b) /\ (a = b \/ RSign(RSub(a, b)) < 0)

RGt(a, b) == RLt(b, a)

REq(a, b) == ~IsNaN(a) /\ ~IsNaN(b) /\ a = b

RAbs(a) == <<Abs(a[1]), a[2]>>

\* int(x) of a finite x: the integer part, towards 0
RInt(a) == Sign(a[1]) * (Abs(a[1]) \div a[2])

RECURSIVE RSum(_)
RSum(s) == IF s = <<>> THEN Zero ELSE RAdd(Head(s), RSum(Tail(s)))

---------------------------------------------------------------------------
(* Tickers are character sequences, so that the program's substring test   *)
(* on the ticker is computed and not assumed.                              *)

AAPL == <<"A", "A", "P", "L">>

TOYOTA == <<"7", "2", "0", "3", ".", "T">>

RYTO == <<"R", "Y", ".", "T", "O">>

XJP == <<"X", ".", "J", "P">>

\* Python's `sub in s` on strings
Contains(sub, s) ==
    \E i \in 0..(Len(s) - Len(sub)) :
        \A k \in 1..Len(sub) : s[i + k] = sub[k]

EndsWith(sub, s) ==
    /\ Len(s) >= Len(sub)
    /\ \A k \in 1..Len(sub) : s[Len(s) - Len(sub) + k] = sub[k]

IsJpy(ticker) == Contains(<<".", "T">>, ticker) \/ Contains(<<".", "J", "P">>, ticker)

---------------------------------------------------------------------------
(* Market-data gateway.  A raw answer of yfinance for one ticker:          *)
(*   info   : the `info` dict; ok = FALSE when reading it raises;          *)
(*            each key is absent (<<>>) or present (<<v>>)                 *)
(*   hist5d : the closes of history(period="5d"), oldest first; empty when *)
(*            the frame is empty or the fetch raised                       *)
(*   hist   : history(period=period), a date-ordered sequence of           *)
(*            [date, close]; fetched and cached separately from hist5d     *)
(*   divs   : the dividend events, [month, amount] per share               *)

Absent == <<>>

Get(opt, default) == IF opt = Absent THEN default ELSE opt[1]

InfoError ==
    [ok |-> FALSE, currentPrice |-> Absent, regularMarketPrice |-> Absent,
     previousClose |-> Absent, dividendYield |-> Absent]

InfoLive ==
    [ok |-> TRUE, currentPrice |-> <<I(165)>>, regularMarketPrice |-> <<I(164)>>,
     previousClose |-> <<I(150)>>, dividendYield |-> <<R(1, 50)>>]

InfoRegular ==
    [ok |-> TRUE, currentPrice |-> Absent, regularMarketPrice |-> <<I(165)>>,
     previousClose |-> Absent, dividendYield |-> Absent]

InfoEmpty ==
    [ok |-> TRUE, currentPrice |-> Absent, regularMarketPrice |-> Absent,
     previousClose |-> Absent, dividendYield |-> Absent]

Obs(d, c) == [date |-> d, close |-> I(c)]

Div(m, a) == [month |-> m, amount |-> I(a)]

\* the answers the gateway can give for one ticker
MarketCases ==
    { \* live quote, full history, one dividend
      [info |-> InfoLive, hist5d |-> <<I(150), I(160)>>,
       hist |-> <<Obs(1, 100), Obs(2, 110), Obs(3, 121)>>, divs |-> <<Div(1, 1)>>],
      \* no quote, history on other dates, two dividends in one month
      [info |-> InfoError, hist5d |-> <<I(150), I(160)>>,
       hist |-> <<Obs(2, 100), Obs(3, 150)>>, divs |-> <<Div(1, 1), Div(1, 2)>>],
      \* quote without previous close, a single observation everywhere
      [info |-> InfoRegular, hist5d |-> <<I(160)>>,
       hist |-> <<Obs(3, 160)>>, divs |-> <<Div(2, 3)>>],
      \* unknown ticker: nothing at all
      [info |-> InfoEmpty, hist5d |-> <<>>, hist |-> <<>>, divs |-> <<>>],
      \* no quote, the 5-day fetch empty, the long history present
      [info |-> InfoError, hist5d |-> <<>>,
       hist |-> <<Obs(1, 100), Obs(2, 110), Obs(3, 121)>>, divs |-> <<>>] }

FxRates == {150}

fetch_stock_info(raw) ==
    IF ~raw.ok
    THEN [current_price |-> Zero, previous_close |-> Zero, dividend_yield |-> Zero]
    ELSE [current_price |-> Get(raw.currentPrice, Get(raw.regularMarketPrice, Zero)),
          previous_close |-> Get(raw.previousClose, Zero),
          dividend_yield |-> Get(raw.dividendYield, Zero)]

\* the closes of fetch_stock_data(ticker, period="5d")
fetch_stock_data_5d(m, ticker) == m[ticker].hist5d

\* fetch_stock_data(ticker, period=period) for the analysis window
fetch_stock_data(m, ticker) == m[ticker].hist

fetch_dividend_history(m, ticker) == m[ticker].divs

Last(s) == s[Len(s)]

---------------------------------------------------------------------------
(* calculate_holdings and calculate_portfolio_summary                      *)

\* a variant without the fallback to the history
ResolvePriceNoFallback(info, hist) == info.current_price

\* current_price of calculate_holdings: the quote, else the last 5-day close
ResolvePrice(info, hist) ==
    IF info.current_price = Zero /\ hist # <<>> THEN Last(hist) ELSE info.current_price

ResolvePrevClose(info, hist) ==
    IF info.previous_close = Zero /\ Len(hist) >= 2
    THEN hist[Len(hist) - 1] ELSE info.previous_close

\* a variant that divides without the guard on cost_total
PnlPctUnguarded(pnl, cost_total) == RMul(RDiv(pnl, cost_total), I(100))

\* pnl_pct = (pnl / cost_total * 100) if cost_total != 0 else 0
PnlPct(pnl, cost_total) ==
    IF cost_total # Zero THEN RMul(RDiv(pnl, cost_total), I(100)) ELSE Zero

\* one row of the holdings table (name, sector and buy_date are passed through
\* unread and left out)
HoldingRow(item, m, exchange_rate) ==
    LET ticker == item.ticker
        info == fetch_stock_info(m[ticker].info)
        hist == fetch_stock_data_5d(m, ticker)
        current_price == ResolvePrice(info, hist)
        prev_close == ResolvePrevClose(info, hist)
        is_jpy == IsJpy(ticker)
        market_value == RMul(current_price, item.shares)
        cost_total == RMul(item.cost_price, item.shares)
        pnl == RSub(market_value, cost_total)
        pnl_pct == PnlPct(pnl, cost_total)
        daily_change == IF RGt(prev_close, Zero)
                        THEN RSub(current_price, prev_close) ELSE Zero
        daily_change_pct == IF RGt(prev_close, Zero)
                            THEN RMul(RDiv(daily_change, prev_close), I(100)) ELSE Zero
        market_value_jpy == IF is_jpy THEN market_value
                            ELSE RMul(market_value, exchange_rate)
        cost_total_jpy == IF is_jpy THEN cost_total ELSE RMul(cost_total, exchange_rate)
    IN  [ticker |-> ticker,
         currency |-> IF is_jpy THEN "JPY" ELSE "USD",
         shares |-> item.shares,
         cost_price |-> item.cost_price,
         current_price |-> current_price,
         prev_close |-> prev_close,
         daily_change |-> daily_change,
         daily_change_pct |-> daily_change_pct,
         market_value |-> market_value,
         cost_total |-> cost_total,
         pnl |-> pnl,
         pnl_pct |-> pnl_pct,
         market_value_jpy |-> market_value_jpy,
         cost_total_jpy |-> cost_total_jpy,
         pnl_jpy |-> RSub(market_value_jpy, cost_total_jpy),
         dividend_yield |-> info.dividend_yield]

\* a variant that gives up on the whole table when one ticker has no price
calculate_holdings_abort(p, m, exchange_rate) ==
    IF \E i \in 1..Len(p) : HoldingRow(p[i], m, exchange_rate).current_price = Zero
    THEN <<>>
    ELSE [i \in 1..Len(p) |-> HoldingRow(p[i], m, exchange_rate)]

\* the holdings table: one row per position, in portfolio order (the empty
\* frame for the empty portfolio)
calculate_holdings(p, m, exchange_rate) ==
    [i \in 1..Len(p) |-> HoldingRow(p[i], m, exchange_rate)]

Column(df, col) == [i \in 1..Len(df) |-> df[i][col]]

SeqMul(a, b) == [i \in 1..Len(a) |-> RMul(a[i], b[i])]

ZeroSummary ==
    [total_value_jpy |-> Zero, total_cost_jpy |-> Zero, total_pnl_jpy |-> Zero,
     total_pnl_pct |-> Zero, daily_change_jpy |-> Zero, daily_change_pct |-> Zero,
     weighted_dividend_yield |-> Zero, annual_dividend_jpy |-> Zero]

\* a variant that sums the column before the currency conversion
TotalValueLocal(df) == RSum(Column(df, "market_value"))

\* total_value = holdings_df["market_value_jpy"].sum()
TotalValue(df) == RSum(Column(df, "market_value_jpy"))

\* weights = holdings_df["market_value_jpy"] / total_value
SummaryWeights(df, total_value) ==
    [i \in 1..Len(df) |-> RDiv(df[i].market_value_jpy, total_value)]

calculate_portfolio_summary(df) ==
    IF df = <<>> THEN ZeroSummary
    ELSE
    LET total_value == TotalValue(df)
        total_cost == RSum(Column(df, "cost_total_jpy"))
        total_pnl == RSub(total_value, total_cost)
        total_pnl_pct == IF total_cost # Zero
                         THEN RMul(RDiv(total_pnl, total_cost), I(100)) ELSE Zero
        weights == SummaryWeights(df, total_value)
        daily_pct == IF RGt(total_value, Zero)
                     THEN RSum(SeqMul(Column(df, "daily_change_pct"), weights)) ELSE Zero
        weighted_div == IF RGt(total_value, Zero)
                        THEN RSum(SeqMul(Column(df, "dividend_yield"), weights)) ELSE Zero
    IN  [total_value_jpy |-> total_value,
         total_cost_jpy |-> total_cost,
         total_pnl_jpy |-> total_pnl,
         total_pnl_pct |-> total_pnl_pct,
         daily_change_jpy |-> RDiv(RMul(total_value, daily_pct), I(100)),
         daily_change_pct |-> daily_pct,
         weighted_dividend_yield |-> weighted_div,
         annual_dividend_jpy |-> RMul(total_value, weighted_div)]

---------------------------------------------------------------------------
(* Aggregations keyed by ticker.  A Python dict assignment d[ticker] = v   *)
(* in a loop over the portfolio keeps, per ticker, the value of the last   *)
(* position that wrote it.                                                 *)

TickersOf(p) == {p[i].ticker : i \in 1..Len(p)}

\* the index of the last position among `idx` that carries `ticker`
LastIndex(p, idx, ticker) ==
    CHOOSE i \in idx : /\ p[i].ticker = ticker
                       /\ \A j \in idx : p[j].ticker = ticker => j <= i

RECURSIVE RSumSet(_, _)
RSumSet(f, S) ==
    IF S = {} THEN Zero
    ELSE LET x == CHOOSE y \in S : TRUE
         IN  RAdd(f[x], RSumSet(f, S \ {x}))

\* value of one position in the reporting currency, as the return weighting,
\* the rebalancing and the frontier compute it
PositionValue(item, current_price, exchange_rate) ==
    LET value == RMul(current_price, item.shares)
    IN  IF ~IsJpy(item.ticker) THEN RMul(value, exchange_rate) ELSE value

---------------------------------------------------------------------------
(* calculate_portfolio_returns                                             *)

\* hist["Close"].pct_change().dropna(): one return per observation but the first
PctChange(hist) ==
    [i \in 1..(Len(hist) - 1) |->
        [date |-> hist[i + 1].date,
         ret |-> RDiv(RSub(hist[i + 1].close, hist[i].close), hist[i].close)]]

Dates(series) == {series[i].date : i \in 1..Len(series)}

At(series, d) == (CHOOSE i \in 1..Len(series) : series[i].date = d)

\* the positions the loop does not skip: hist has at least 2 observations
UsableIndices(p, m) ==
    {i \in 1..Len(p) : Len(fetch_stock_data(m, p[i].ticker)) >= 2}

\* current_price of the return weighting: the quote, else the last close of
\* the analysis-window history
ReturnsPrice(m, ticker) ==
    LET info == fetch_stock_info(m[ticker].info)
        hist == fetch_stock_data(m, ticker)
    IN  IF info.current_price = Zero /\ hist # <<>>
        THEN Last(hist).close ELSE info.current_price

\* the dict `weights` after the loop: ticker -> value of the last position
ReturnValues(p, m, exchange_rate) ==
    LET idx == UsableIndices(p, m)
    IN  [t \in {p[i].ticker : i \in idx} |->
            PositionValue(p[LastIndex(p, idx, t)], ReturnsPrice(m, t), exchange_rate)]

\* the Series w: ticker -> value / total_value
ReturnWeights(p, m, exchange_rate) ==
    LET weights == ReturnValues(p, m, exchange_rate)
        total_value == RSumSet(weights, DOMAIN weights)
    IN  [t \in DOMAIN weights |-> RDiv(weights[t], total_value)]

\* the dates left by DataFrame(all_returns).dropna(): those every column has
CommonDates(m, ts) ==
    {d \in UNION {Dates(PctChange(fetch_stock_data(m, t))) : t \in ts} :
        \A t \in ts : d \in Dates(PctChange(fetch_stock_data(m, t)))}

RECURSIVE SortedSeq(_)
SortedSeq(S) ==
    IF S = {} THEN <<>>
    ELSE LET lo == CHOOSE x \in S : \A y \in S : x <= y
         IN  <<lo>> \o SortedSeq(S \ {lo})

\* the blended series: a date-ordered sequence of [date, ret]; <<>> is the
\* empty Series
calculate_portfolio_returns(p, m, exchange_rate) ==
    IF p = <<>> THEN <<>>
    ELSE
    LET weights == ReturnValues(p, m, exchange_rate)
        ts == DOMAIN weights
        total_value == RSumSet(weights, ts)
        w == ReturnWeights(p, m, exchange_rate)
        dates == SortedSeq(CommonDates(m, ts))
        rets(t) == PctChange(fetch_stock_data(m, t))
    IN  IF ts = {} THEN <<>>
        ELSE IF total_value = Zero THEN <<>>
        ELSE [k \in 1..Len(dates) |->
                [date |-> dates[k],
                 ret |-> RSumSet([t \in ts |->
                            RMul(rets(t)[At(rets(t), dates[k])].ret, w[t])], ts)]]

---------------------------------------------------------------------------
(* calculate_rebalance_actions, first loop: the value of every ticker and  *)
(* the total                                                               *)

\* current_price of the rebalancing: the quote, else the last 5-day close
RebalancePrice(m, ticker) ==
    LET info == fetch_stock_info(m[ticker].info)
        hist == fetch_stock_data_5d(m, ticker)
    IN  IF info.current_price = Zero
        THEN (IF hist # <<>> THEN Last(hist) ELSE info.current_price)
        ELSE info.current_price

\* the dict current_values after the loop
RebalanceCurrentValues(p, m, exchange_rate) ==
    [t \in TickersOf(p) |->
        PositionValue(p[LastIndex(p, 1..Len(p), t)], RebalancePrice(m, t), exchange_rate)]

\* total_value after the loop: every position adds its value
RebalanceTotalValue(p, m, exchange_rate) ==
    RSum([i \in 1..Len(p) |->
            PositionValue(p[i], RebalancePrice(m, p[i].ticker), exchange_rate)])

\* the keys of current_values in insertion order: every ticker once, at its
\* first position
TickerOrder(p) ==
    LET firsts == SelectSeq([i \in 1..Len(p) |-> i],
                            LAMBDA i : \A j \in 1..(i - 1) : p[j].ticker # p[i].ticker)
    IN  [k \in 1..Len(firsts) |-> p[firsts[k]].ticker]

\* target_allocations.get(ticker, 0)
TargetPct(target_allocations, ticker) ==
    IF ticker \in DOMAIN target_allocations THEN target_allocations[ticker] ELSE Zero

\* a variant that also reports a difference of exactly the threshold
MaterialInclusive(diff_value) == RLe(I(100), RAbs(diff_value))

\* abs(diff_value) > 100
Material(diff_value) == RGt(RAbs(diff_value), I(100))

\* what the second loop computes for one ticker; the row is the action
\* record before its numbers are formatted as text
RebalanceRow(ticker, current_value, total_value, target_pct, current_price) ==
    LET current_pct == IF RGt(total_value, Zero)
                       THEN RMul(RDiv(current_value, total_value), I(100))
                       ELSE Zero
        target_value == RMul(total_value, RDiv(target_pct, I(100)))
        diff_value == RSub(target_value, current_value)
    IN  [ticker |-> ticker,
         current_pct |-> current_pct,
         target_pct |-> target_pct,
         diff_pct |-> RSub(target_pct, current_pct),
         diff_value |-> diff_value,
         action |-> IF RGt(diff_value, Zero) THEN "buy" ELSE "sell",
         amount |-> RAbs(diff_value),
         shares |-> IF RGt(current_price, Zero)
                    THEN RInt(RDiv(RAbs(diff_value), current_price)) ELSE 0]

\* what the second loop computes, one row per key of current_values, before
\* the threshold decides which rows are reported
RebalanceRows(p, m, target_allocations, exchange_rate) ==
    LET current_values == RebalanceCurrentValues(p, m, exchange_rate)
        total_value == RebalanceTotalValue(p, m, exchange_rate)
        order == TickerOrder(p)
    IN  [k \in 1..Len(order) |->
            RebalanceRow(order[k], current_values[order[k]], total_value,
                         TargetPct(target_allocations, order[k]),
                         RebalancePrice(m, order[k]))]

\* the rows of the returned frame, in the order of current_values
calculate_rebalance_actions(p, m, target_allocations, exchange_rate) ==
    SelectSeq(RebalanceRows(p, m, target_allocations, exchange_rate),
              LAMBDA row : Material(row.diff_value))

---------------------------------------------------------------------------
(* aggregate_dividend_by_month                                             *)

\* the positions whose dividend history is not empty
DividendIndices(p, m) ==
    {i \in 1..Len(p) : fetch_dividend_history(m, p[i].ticker) # <<>>}

\* a variant that leaves every amount in the ticker's currency
DividendAmountUnconverted(item, event, exchange_rate) ==
    RMul(event.amount, item.shares)

\* Amount of one event for one position: Dividend x shares, x the exchange
\* rate unless the ticker is local
DividendAmount(item, event, exchange_rate) ==
    LET amount == RMul(event.amount, item.shares)
    IN  IF ~IsJpy(item.ticker) THEN RMul(amount, exchange_rate) ELSE amount

\* resample("M").sum(): every month from the first event's to the last's
MonthlyIncome(item, divs, exchange_rate) ==
    LET months == {divs[i].month : i \in 1..Len(divs)}
        lo == CHOOSE x \in months : \A y \in months : x <= y
        hi == CHOOSE x \in months : \A y \in months : y <= x
    IN  [mo \in lo..hi |->
            RSum([i \in 1..Len(divs) |->
                     IF divs[i].month = mo
                     THEN DividendAmount(item, divs[i], exchange_rate) ELSE Zero])]

\* the frame: month -> ticker -> income, missing cells filled with 0; the
\* column of a ticker is the one the last position with that ticker wrote
aggregate_dividend_by_month(p, m, exchange_rate) ==
    LET idx == DividendIndices(p, m)
        ts == {p[i].ticker : i \in idx}
        all_dividends ==
            [t \in ts |-> MonthlyIncome(p[LastIndex(p, idx, t)],
                                        fetch_dividend_history(m, t), exchange_rate)]
        months == UNION {DOMAIN all_dividends[t] : t \in ts}
    IN  [mo \in months |->
            [t \in ts |-> IF mo \in DOMAIN all_dividends[t]
                          THEN all_dividends[t][mo] ELSE Zero]]

---------------------------------------------------------------------------
(* calculate_risk_metrics on a series of daily returns (the values, in     *)
(* date order).  Irrational results are kept symbolic:                     *)
(*   [num, sq]        stands for num / sqrt(sq), and for num when sq = 1   *)
(*   [base, periods]  stands for base ^ (TRADING_DAYS / periods) - 1       *)

TRADING_DAYS == 252

MinObservations == 10

\* RISK_FREE_RATE = 0.005
RISK_FREE_RATE == R(5, 1000)

Sym(x) == [num |-> x, sq |-> One]

SymZero == Sym(Zero)

CagrZero == [base |-> One, periods |-> 1]

\* Series.mean()
Mean(s) == RDiv(RSum(s), I(Len(s)))

\* Series.std() squared: the sample variance (ddof = 1); NaN for one value
Variance(s) ==
    LET mu == Mean(s)
        sq(x) == RMul(RSub(x, mu), RSub(x, mu))
    IN  RDiv(RSum([i \in 1..Len(s) |-> sq(s[i])]), I(Len(s) - 1))

\* (x.std() * sqrt(TRADING_DAYS)) squared
AnnualizedVarianceOf(s) == RMul(Variance(s), I(TRADING_DAYS))

\* a variant that divides whatever the volatility is
UnguardedRatio(excess, volsq) == [num |-> excess, sq |-> volsq]

\* excess / vol for vol = sqrt(volsq), guarded as `x / vol if vol != 0 else 0`
\* (NaN != 0 is true in Python, and a number divided by NaN is NaN)
GuardedRatio(excess, volsq) ==
    IF volsq = Zero THEN SymZero
    ELSE IF IsNaN(volsq) THEN Sym(NaN)
    ELSE [num |-> excess, sq |-> volsq]

PlusOne(r) == RAdd(One, r)

\* (1 + returns).cumprod()
RECURSIVE CumProd(_)
CumProd(s) ==
    IF s = <<>> THEN <<>>
    ELSE LET front == CumProd(SubSeq(s, 1, Len(s) - 1))
         IN  Append(front, IF front = <<>> THEN PlusOne(Last(s))
                           ELSE RMul(Last(front), PlusOne(Last(s))))

RMax(a, b) == IF RLt(a, b) THEN b ELSE a

\* cum.cummax()
RECURSIVE CumMax(_)
CumMax(s) ==
    IF s = <<>> THEN <<>>
    ELSE LET front == CumMax(SubSeq(s, 1, Len(s) - 1))
         IN  Append(front, IF front = <<>> THEN Last(s) ELSE RMax(Last(front), Last(s)))

\* Series.min(): NaN entries are skipped; NaN when nothing is left
RECURSIVE SeriesMin(_)
SeriesMin(s) ==
    IF s = <<>> THEN NaN
    ELSE LET rest == SeriesMin(Tail(s))
         IN  IF IsNaN(Head(s)) THEN rest
             ELSE IF IsNaN(rest) THEN Head(s)
             ELSE IF RLt(rest, Head(s)) THEN rest ELSE Head(s)

\* a variant with the difference taken the other way round
DrawdownFlipped(cum, peak) ==
    [i \in 1..Len(cum) |-> RDiv(RSub(peak[i], cum[i]), peak[i])]

\* drawdown = (cum - peak) / peak
Drawdown(cum, peak) ==
    [i \in 1..Len(cum) |-> RDiv(RSub(cum[i], peak[i]), peak[i])]

MaxDrawdown(s) ==
    LET cum == CumProd(s)
        peak == CumMax(cum)
    IN  SeriesMin(Drawdown(cum, peak))

RECURSIVE Insert(_, _)
Insert(x, s) ==
    IF s = <<>> THEN <<x>>
    ELSE IF RLe(x, Head(s)) THEN <<x>> \o s
    ELSE <<Head(s)>> \o Insert(x, Tail(s))

RECURSIVE Sorted(_)
Sorted(s) == IF s = <<>> THEN <<>> ELSE Insert(Head(s), Sorted(Tail(s)))

\* np.percentile(s, q): linear interpolation between the order statistics
Percentile(s, q) ==
    LET x == Sorted(s)
        pos == R((Len(s) - 1) * q, 100)
        lo == pos[1] \div pos[2]
        frac == RSub(pos, I(lo))
    IN  IF lo + 1 >= Len(s) THEN x[Len(s)]
        ELSE RAdd(x[lo + 1], RMul(frac, RSub(x[lo + 2], x[lo + 1])))

\* (1 + returns).prod() - 1
TotalReturn(s) == IF s = <<>> THEN Zero ELSE RSub(Last(CumProd(s)), One)

Negatives(s) == SelectSeq(s, LAMBDA x : RLt(x, Zero))

\* the record returned for a series that is too short
ZeroMetrics ==
    [computed |-> TRUE,
     sharpe_ratio |-> SymZero, sortino_ratio |-> SymZero, max_drawdown |-> Zero,
     volatility |-> SymZero, var_95 |-> Zero, var_99 |-> Zero, beta |-> Zero,
     total_return |-> Zero, cagr |-> CagrZero]

\* a variant with the threshold one observation too low
TooShortOffByOne(s) == s = <<>> \/ Len(s) < MinObservations - 1

\* returns.empty or len(returns) < 10
TooShort(s) == s = <<>> \/ Len(s) < MinObservations

\* the record of a series that is long enough; it has no beta entry, the
\* model carries beta = 0 there so that the records have one shape
calculate_risk_metrics(s) ==
    IF TooShort(s) THEN ZeroMetrics
    ELSE
    LET volsq == AnnualizedVarianceOf(s)
        excess_return == RSub(RMul(Mean(s), I(TRADING_DAYS)), RISK_FREE_RATE)
        downside == Negatives(s)
        downside_sq == IF Len(downside) > 0 THEN AnnualizedVarianceOf(downside) ELSE Zero
        total_ret == TotalReturn(s)
    IN  [computed |-> TRUE,
         sharpe_ratio |-> GuardedRatio(excess_return, volsq),
         sortino_ratio |-> GuardedRatio(excess_return, downside_sq),
         max_drawdown |-> MaxDrawdown(s),
         volatility |-> IF volsq = Zero THEN SymZero ELSE [num |-> volsq, sq |-> volsq],
         var_95 |-> Percentile(s, 5),
         var_99 |-> Percentile(s, 1),
         beta |-> Zero,
         total_return |-> total_ret,
         cagr |-> IF Len(s) > 0 /\ RGt(PlusOne(total_ret), Zero)
                  THEN [base |-> PlusOne(total_ret), periods |-> Len(s)]
                  ELSE CagrZero]

---------------------------------------------------------------------------
(* encode_portfolio and decode_portfolio.  A text is the sequence of its   *)
(* code points and a byte string the sequence of its bytes.  A Python      *)
(* value is [list |-> items], [dict |-> entries] with the entries          *)
(* [key, value] in insertion order, [str |-> text], [float |-> x],         *)
(* [int |-> n] or [lit |-> "None" | "True" | "False"].                     *)

\* the printable ASCII characters in code order, from the space (32) on
Ascii ==
    << " ", "!", "\"", "#", "$", "%", "&", "'", "(", ")", "*", "+",
       ",", "-", ".", "/", "0", "1", "2", "3", "4", "5", "6", "7",
       "8", "9", ":", ";", "<", "=", ">", "?", "@", "A", "B", "C",
       "D", "E", "F", "G", "H", "I", "J", "K", "L", "M", "N", "O",
       "P", "Q", "R", "S", "T", "U", "V", "W", "X", "Y", "Z", "[",
       "\\", "]", "^", "_", "U+0060", "a", "b", "c", "d", "e", "f", "g",
       "h", "i", "j", "k", "l", "m", "n", "o", "p", "q", "r", "s",
       "t", "u", "v", "w", "x", "y", "z", "{", "|", "}", "~" >>

\* ord(c); "U+0060", "U+00E9" and "U+682A" stand for the characters of
\* these code points
Ord(c) ==
    CASE c = "U+00E9" -> 233
      [] c = "U+682A" -> 26666
      [] OTHER -> 31 + (CHOOSE i \in 1..Len(Ascii) : Ascii[i] = c)

\* chr(n)
Chr(n) ==
    CASE n = 233 -> "U+00E9"
      [] n = 26666 -> "U+682A"
      [] OTHER -> Ascii[n - 31]

\* the text of a string of the model
Text(s) == [i \in 1..Len(s) |-> Ord(s[i])]

\* the string of a text
Str(text) == [i \in 1..Len(text) |-> Chr(text[i])]

\* the concatenation of the sequences ss[lo..hi], evaluated half by half
RECURSIVE ConcatRange(_, _, _)
ConcatRange(ss, lo, hi) ==
    IF lo > hi THEN <<>>
    ELSE IF lo = hi THEN ss[lo]
    ELSE LET mid == (lo + hi) \div 2
         IN  ConcatRange(ss, lo, mid) \o ConcatRange(ss, mid + 1, hi)

Concat(ss) == ConcatRange(ss, 1, Len(ss))

\* sep.join(ss)
Join(sep, ss) ==
    Concat([k \in 1..Len(ss) |-> IF k = 1 THEN ss[k] ELSE sep \o ss[k]])

\* what a partial operation hands back: a value, or an exception
Ok(v) == [ok |-> TRUE, val |-> v]

Fail == [ok |-> FALSE]

\* --- json.dumps(portfolio, ensure_ascii=False) ---

RECURSIVE Pow10(_)
Pow10(k) == IF k = 0 THEN 1 ELSE 10 * Pow10(k - 1)

\* the decimals a float of the model is written with: at most MaxDecimals
MaxDecimals == 4

RECURSIVE Digits(_)
Digits(n) == IF n < 10 THEN <<48 + n>> ELSE Digits(n \div 10) \o <<48 + (n % 10)>>

\* str(n) of an int
IntRepr(n) == IF n < 0 THEN <<45>> \o Digits(-n) ELSE Digits(n)

\* the number of decimals of a finite x = n / d: the least k with d | 10^k
Decimals(d) ==
    CHOOSE k \in 0..MaxDecimals :
        /\ Pow10(k) % d = 0
        /\ \A j \in 0..(k - 1) : Pow10(j) % d # 0

\* float.__repr__ as json writes it: the shortest decimal that reads back
\* as x, with at least one decimal; NaN, Infinity and -Infinity for the
\* special values (allow_nan is on).  Values from 1e16 on and below 1e-4,
\* which repr writes with an exponent, are not among the inputs.
FloatRepr(x) ==
    IF IsNaN(x) THEN <<78, 97, 78>>
    ELSE IF x = <<1, 0>> THEN <<73, 110, 102, 105, 110, 105, 116, 121>>
    ELSE IF x = <<-1, 0>> THEN <<45, 73, 110, 102, 105, 110, 105, 116, 121>>
    ELSE LET k == Decimals(x[2])
             scaled == Abs(x[1]) * (Pow10(k) \div x[2])
             whole == Digits(scaled \div Pow10(k))
             frac == Digits(scaled % Pow10(k))
             zeros == [j \in 1..(k - Len(frac)) |-> 48]
         IN  (IF x[1] < 0 THEN <<45>> ELSE <<>>) \o whole \o <<46>>
             \o (IF k = 0 THEN <<48>> ELSE zeros \o frac)

\* one hexadecimal digit, lower case
HexDigit(n) == IF n < 10 THEN 48 + n ELSE 87 + n

\* one character of a string as json.dumps writes it: the quote, the
\* backslash and the control characters are escaped, everything else is
\* written as it is (ensure_ascii is off)
EscapeChar(c) ==
    CASE c = 34 -> <<92, 34>>
      [] c = 92 -> <<92, 92>>
      [] c = 10 -> <<92, 110>>
      [] c = 13 -> <<92, 114>>
      [] c = 9 -> <<92, 116>>
      [] c = 8 -> <<92, 98>>
      [] c = 12 -> <<92, 102>>
      [] c < 32 -> <<92, 117, 48, 48, HexDigit(c \div 16), HexDigit(c % 16)>>
      [] OTHER -> <<c>>

StrRepr(text) ==
    <<34>> \o Concat([i \in 1..Len(text) |-> EscapeChar(text[i])]) \o <<34>>

RECURSIVE Dumps(_)
Dumps(v) ==
    CASE "list" \in DOMAIN v ->
            <<91>> \o Join(<<44, 32>>, [k \in 1..Len(v.list) |-> Dumps(v.list[k])])
                   \o <<93>>
      [] "dict" \in DOMAIN v ->
            <<123>> \o Join(<<44, 32>>,
                            [k \in 1..Len(v.dict) |->
                                StrRepr(v.dict[k].key) \o <<58, 32>>
                                    \o Dumps(v.dict[k].value)])
                    \o <<125>>
      [] "str" \in DOMAIN v -> StrRepr(v.str)
      [] "float" \in DOMAIN v -> FloatRepr(v.float)
      [] "int" \in DOMAIN v -> IntRepr(v.int)
      [] OTHER -> CASE v.lit = "None" -> <<110, 117, 108, 108>>
                    [] v.lit = "True" -> <<116, 114, 117, 101>>
                    [] OTHER -> <<102, 97, 108, 115, 101>>

\* --- str.encode("utf-8") and bytes.decode("utf-8") ---

\* the bytes of one code point (no surrogate is among the inputs)
Utf8Char(c) ==
    IF c < 128 THEN <<c>>
    ELSE IF c < 2048 THEN <<192 + (c \div 64), 128 + (c % 64)>>
    ELSE IF c < 65536
         THEN <<224 + (c \div 4096), 128 + ((c \div 64) % 64), 128 + (c % 64)>>
    ELSE <<240 + (c \div 262144), 128 + ((c \div 4096) % 64),
           128 + ((c \div 64) % 64), 128 + (c % 64)>>

Utf8Encode(text) == Concat([i \in 1..Len(text) |-> Utf8Char(text[i])])

\* the length of the sequence a byte starts, 0 for a byte that starts none
LeadLen(b) ==
    IF b < 128 THEN 1
    ELSE IF b \in 194..223 THEN 2
    ELSE IF b \in 224..239 THEN 3
    ELSE IF b \in 240..244 THEN 4
    ELSE 0

\* the sequence of bytes[i..(i + n - 1)] is well formed: n is what the lead
\* byte announces and the second byte is in the range the lead byte allows
WellFormed(bytes, i, n) ==
    /\ LeadLen(bytes[i]) = n
    /\ bytes[i] = 224 => bytes[i + 1] >= 160
    /\ bytes[i] = 237 => bytes[i + 1] <= 159
    /\ bytes[i] = 240 => bytes[i + 1] >= 144
    /\ bytes[i] = 244 => bytes[i + 1] <= 143

\* the code point of the well-formed sequence that starts at byte i
CodePoint(bytes, i) ==
    LET b == bytes[i]
        c(k) == bytes[i + k] - 128
    IN  CASE b < 128 -> b
          [] b < 224 -> (b - 192) * 64 + c(1)
          [] b < 240 -> (b - 224) * 4096 + c(1) * 64 + c(2)
          [] OTHER -> (b - 240) * 262144 + c(1) * 4096 + c(2) * 64 + c(3)

\* bytes.decode("utf-8"): strict, UnicodeDecodeError on a malformed sequence
Utf8Decode(bytes) ==
    LET n == Len(bytes)
        leads == SelectSeq([i \in 1..n |-> i], LAMBDA i : bytes[i] \notin 128..191)
        following(k) == IF k < Len(leads) THEN leads[k + 1] ELSE n + 1
    IN  IF /\ n > 0 => (leads # <<>> /\ leads[1] = 1)
           /\ \A k \in 1..Len(leads) :
                 WellFormed(bytes, leads[k], following(k) - leads[k])
        THEN Ok([k \in 1..Len(leads) |-> CodePoint(bytes, leads[k])])
        ELSE Fail

\* --- base64.urlsafe_b64encode and base64.urlsafe_b64decode ---

\* the character of a 6-bit value in the URL-safe alphabet
B64Char(s) ==
    IF s < 26 THEN 65 + s
    ELSE IF s < 52 THEN 71 + s
    ELSE IF s < 62 THEN s - 4
    ELSE IF s = 62 THEN 45
    ELSE 95

\* the 6-bit value of a character, -1 for a character outside the alphabet;
\* the decoder maps - and _ to + and / and accepts the four of them
B64Value(c) ==
    IF c \in 65..90 THEN c - 65
    ELSE IF c \in 97..122 THEN c - 71
    ELSE IF c \in 48..57 THEN c + 4
    ELSE IF c \in {45, 43} THEN 62
    ELSE IF c \in {95, 47} THEN 63
    ELSE -1

\* byte i of bytes, 0 past the end
ByteAt(bytes, i) == IF i <= Len(bytes) THEN bytes[i] ELSE 0

urlsafe_b64encode(bytes) ==
    LET n == Len(bytes)
        chars == (n * 8 + 5) \div 6
        sextet(k) ==
            LET i == ((6 * k) \div 8) + 1
                o == (6 * k) % 8
            IN  CASE o = 0 -> bytes[i] \div 4
                  [] o = 6 -> (bytes[i] % 4) * 16 + (ByteAt(bytes, i + 1) \div 16)
                  [] o = 4 -> (bytes[i] % 16) * 4 + (ByteAt(bytes, i + 1) \div 64)
                  [] OTHER -> bytes[i] % 64
    IN  [k \in 1..(4 * ((n + 2) \div 3)) |->
            IF k <= chars THEN B64Char(sextet(k - 1)) ELSE 61]

\* binascii.a2b_base64 without strict mode: characters outside the alphabet
\* are skipped; a = ends the data when 2 or 3 characters of a group were
\* read and the group is padded to 4, and what follows is ignored; data
\* that ends inside a group without that padding raises
urlsafe_b64decode(bytes) ==
    LET n == Len(bytes)
        IsData(j) == B64Value(bytes[j]) >= 0
        before(j) == {k \in 1..(j - 1) : IsData(k)}
        quad_pos(j) == Cardinality(before(j)) % 4
        pads(j) == Cardinality({k \in 1..j : bytes[k] = 61 /\ \A d \in before(j) : d < k})
        stops == {j \in 1..n : bytes[j] = 61 /\ quad_pos(j) >= 2
                                 /\ quad_pos(j) + pads(j) >= 4}
        end == IF stops = {} THEN n + 1
               ELSE CHOOSE j \in stops : \A k \in stops : j <= k
        data == SelectSeq([j \in 1..(end - 1) |-> B64Value(bytes[j])],
                          LAMBDA s : s >= 0)
        byte(k) ==
            LET i == ((8 * k) \div 6) + 1
                o == (8 * k) % 6
            IN  CASE o = 0 -> data[i] * 4 + (data[i + 1] \div 16)
                  [] o = 2 -> (data[i] % 16) * 16 + (data[i + 1] \div 4)
                  [] OTHER -> (data[i] % 4) * 64 + data[i + 1]
    IN  IF stops = {} /\ Len(data) % 4 # 0 THEN Fail
        ELSE Ok([k \in 1..((Len(data) * 6) \div 8) |-> byte(k - 1)])

\* --- json.loads ---

\* what a parsing step hands back: the value and the index after it
Parsed(v, next) == [ok |-> TRUE, val |-> v, next |-> next]

\* the first index from i on that is past the text or holds no whitespace
SkipWs(text, i) ==
    CHOOSE j \in i..(Len(text) + 1) :
        /\ j = Len(text) + 1 \/ text[j] \notin {32, 9, 10, 13}
        /\ \A k \in i..(j - 1) : text[k] \in {32, 9, 10, 13}

\* the first index from i on that is past the text or holds no digit
DigitsEnd(text, i) ==
    CHOOSE j \in i..(Len(text) + 1) :
        /\ j = Len(text) + 1 \/ text[j] \notin 48..57
        /\ \A k \in i..(j - 1) : text[k] \in 48..57

\* the number the digits text[lo..hi] write
RECURSIVE DigitsValue(_, _, _)
DigitsValue(text, lo, hi) ==
    IF lo > hi THEN 0 ELSE DigitsValue(text, lo, hi - 1) * 10 + (text[hi] - 48)

StartsWith(text, i, word) ==
    /\ i + Len(word) - 1 <= Len(text)
    /\ \A k \in 1..Len(word) : text[i + k - 1] = word[k]

IsDigitAt(text, i) == i <= Len(text) /\ text[i] \in 48..57

\* a number: -?(0|[1-9][0-9]*)(.[0-9]+)?([eE][-+]?[0-9]+)?  An int when it
\* has neither decimals nor exponent, else a float
ParseNumber(text, i) ==
    LET first == IF text[i] = 45 THEN i + 1 ELSE i
        sign == IF text[i] = 45 THEN -1 ELSE 1
        int_end == IF text[first] = 48 THEN first + 1 ELSE DigitsEnd(text, first)
        has_frac == /\ int_end <= Len(text) /\ text[int_end] = 46
                    /\ IsDigitAt(text, int_end + 1)
        frac_end == IF has_frac THEN DigitsEnd(text, int_end + 1) ELSE int_end
        exp_signed == /\ frac_end + 1 <= Len(text)
                      /\ text[frac_end + 1] \in {43, 45}
        exp_first == IF exp_signed THEN frac_end + 2 ELSE frac_end + 1
        has_exp == /\ frac_end <= Len(text) /\ text[frac_end] \in {101, 69}
                   /\ IsDigitAt(text, exp_first)
        exp_end == IF has_exp THEN DigitsEnd(text, exp_first) ELSE frac_end
        whole == DigitsValue(text, first, int_end - 1)
        decimals == frac_end - int_end - 1
        mantissa == IF has_frac
                    THEN R(sign * (whole * Pow10(decimals)
                                   + DigitsValue(text, int_end + 1, frac_end - 1)),
                           Pow10(decimals))
                    ELSE I(sign * whole)
        exponent == IF has_exp THEN DigitsValue(text, exp_first, exp_end - 1) ELSE 0
        scale == IF has_exp /\ exp_signed /\ text[frac_end + 1] = 45
                 THEN R(1, Pow10(exponent)) ELSE I(Pow10(exponent))
    IN  IF ~IsDigitAt(text, first) THEN Fail
        ELSE IF ~has_frac /\ ~has_exp THEN Parsed([int |-> sign * whole], int_end)
        ELSE Parsed([float |-> RMul(mantissa, scale)], exp_end)

IsHex(c) == c \in 48..57 \/ c \in 65..70 \/ c \in 97..102

HexValue(c) == IF c \in 48..57 THEN c - 48 ELSE IF c \in 65..70 THEN c - 55 ELSE c - 87

\* the character an escape \e stands for, -1 for an invalid escape
Unescape(e) ==
    CASE e = 34 -> 34
      [] e = 92 -> 92
      [] e = 47 -> 47
      [] e = 98 -> 8
      [] e = 102 -> 12
      [] e = 110 -> 10
      [] e = 114 -> 13
      [] e = 116 -> 9
      [] OTHER -> -1

\* a string from the index after its opening quote on; acc is what was read.
\* Control characters are refused (strict); an escape \uXXXX is one code
\* point (no surrogate pair is among the inputs)
RECURSIVE StringBody(_, _, _)
StringBody(text, j, acc) ==
    IF j > Len(text) THEN Fail
    ELSE IF text[j] = 34 THEN Parsed([str |-> acc], j + 1)
    ELSE IF text[j] = 92
         THEN IF j + 1 > Len(text) THEN Fail
              ELSE IF text[j + 1] = 117
                   THEN IF j + 5 <= Len(text) /\ \A k \in 2..5 : IsHex(text[j + k])
                        THEN StringBody(text, j + 6,
                                 Append(acc, HexValue(text[j + 2]) * 4096
                                             + HexValue(text[j + 3]) * 256
                                             + HexValue(text[j + 4]) * 16
                                             + HexValue(text[j + 5])))
                        ELSE Fail
              ELSE IF Unescape(text[j + 1]) >= 0
                   THEN StringBody(text, j + 2, Append(acc, Unescape(text[j + 1])))
              ELSE Fail
    ELSE IF text[j] < 32 THEN Fail
    ELSE StringBody(text, j + 1, Append(acc, text[j]))

\* dict[key] = value: a key already present keeps its place
SetEntry(entries, key, value) ==
    IF \E e \in 1..Len(entries) : entries[e].key = key
    THEN [e \in 1..Len(entries) |->
            IF entries[e].key = key THEN [key |-> key, value |-> value]
            ELSE entries[e]]
    ELSE Append(entries, [key |-> key, value |-> value])

RECURSIVE ParseValue(_, _)
RECURSIVE ParseItems(_, _, _)
RECURSIVE ParseEntries(_, _, _)

\* the value that starts at index i (no whitespace there)
ParseValue(text, i) ==
    IF i > Len(text) THEN Fail
    ELSE IF text[i] = 34 THEN StringBody(text, i + 1, <<>>)
    ELSE IF text[i] = 91
         THEN LET j == SkipWs(text, i + 1)
              IN  IF j <= Len(text) /\ text[j] = 93
                  THEN Parsed([list |-> <<>>], j + 1)
                  ELSE ParseItems(text, j, <<>>)
    ELSE IF text[i] = 123
         THEN LET j == SkipWs(text, i + 1)
              IN  IF j <= Len(text) /\ text[j] = 125
                  THEN Parsed([dict |-> <<>>], j + 1)
                  ELSE ParseEntries(text, j, <<>>)
    ELSE IF StartsWith(text, i, <<110, 117, 108, 108>>) THEN Parsed([lit |-> "None"], i + 4)
    ELSE IF StartsWith(text, i, <<116, 114, 117, 101>>) THEN Parsed([lit |-> "True"], i + 4)
    ELSE IF StartsWith(text, i, <<102, 97, 108, 115, 101>>) THEN Parsed([lit |-> "False"], i + 5)
    ELSE IF StartsWith(text, i, <<78, 97, 78>>) THEN Parsed([float |-> NaN], i + 3)
    ELSE IF StartsWith(text, i, <<73, 110, 102, 105, 110, 105, 116, 121>>) THEN Parsed([float |-> <<1, 0>>], i + 8)
    ELSE IF StartsWith(text, i, <<45, 73, 110, 102, 105, 110, 105, 116, 121>>)
         THEN Parsed([float |-> <<-1, 0>>], i + 9)
    ELSE IF text[i] = 45 \/ text[i] \in 48..57 THEN ParseNumber(text, i)
    ELSE Fail

\* the items of a list from the index of an item on; acc is what was read
ParseItems(text, j, acc) ==
    LET v == ParseValue(text, j)
    IN  IF ~v.ok THEN Fail
        ELSE LET k == SkipWs(text, v.next)
             IN  IF k > Len(text) THEN Fail
                 ELSE IF text[k] = 44
                      THEN ParseItems(text, SkipWs(text, k + 1), Append(acc, v.val))
                 ELSE IF text[k] = 93 THEN Parsed([list |-> Append(acc, v.val)], k + 1)
                 ELSE Fail

\* the entries of a dict from the index of a key on; acc is what was read
ParseEntries(text, j, acc) ==
    IF j > Len(text) \/ text[j] # 34 THEN Fail
    ELSE LET key == StringBody(text, j + 1, <<>>)
         IN  IF ~key.ok THEN Fail
             ELSE LET colon == SkipWs(text, key.next)
                  IN  IF colon > Len(text) \/ text[colon] # 58 THEN Fail
                      ELSE LET v == ParseValue(text, SkipWs(text, colon + 1))
                           IN  IF ~v.ok THEN Fail
                               ELSE LET k == SkipWs(text, v.next)
                                        entries == SetEntry(acc, key.val.str, v.val)
                                    IN  IF k > Len(text) THEN Fail
                                        ELSE IF text[k] = 44
                                             THEN ParseEntries(text, SkipWs(text, k + 1),
                                                               entries)
                                        ELSE IF text[k] = 125
                                             THEN Parsed([dict |-> entries], k + 1)
                                        ELSE Fail

\* json.loads(data): one value with whitespace around it, JSONDecodeError
\* otherwise
Loads(text) ==
    LET v == ParseValue(text, SkipWs(text, 1))
    IN  IF v.ok /\ SkipWs(text, v.next) = Len(text) + 1 THEN Ok(v.val) ELSE Fail

\* --- the two functions ---

encode_portfolio(p) ==
    LET data == Dumps(p)
    IN  Utf8Decode(urlsafe_b64encode(Utf8Encode(data))).val

\* the try block, and [] for any exception
decode_portfolio(encoded) ==
    LET raw == urlsafe_b64decode(Utf8Encode(encoded))
        data == Utf8Decode(raw.val)
        p == Loads(data.val)
    IN  IF raw.ok /\ data.ok /\ p.ok THEN p.val ELSE [list |-> <<>>]

\* bool(v), as `if portfolio:` takes it
Truthy(v) ==
    CASE "list" \in DOMAIN v -> v.list # <<>>
      [] "dict" \in DOMAIN v -> v.dict # <<>>
      [] "str" \in DOMAIN v -> v.str # <<>>
      [] "float" \in DOMAIN v -> v.float # Zero
      [] "int" \in DOMAIN v -> v.int # 0
      [] OTHER -> v.lit = "True"

\* the keys of a position record
KeyText ==
    [ticker |-> Text(<<"t", "i", "c", "k", "e", "r">>),
     shares |-> Text(<<"s", "h", "a", "r", "e", "s">>),
     cost_price |-> Text(<<"c", "o", "s", "t", "_", "p", "r", "i", "c", "e">>),
     buy_date |-> Text(<<"b", "u", "y", "_", "d", "a", "t", "e">>)]

\* the position record of the model as the Python dict it stands for: the
\* numbers are floats, buy_date is there when the record has it
PyPosition(item) ==
    [dict |->
        << [key |-> KeyText.ticker, value |-> [str |-> Text(item.ticker)]],
           [key |-> KeyText.shares, value |-> [float |-> item.shares]],
           [key |-> KeyText.cost_price, value |-> [float |-> item.cost_price]] >>
        \o (IF "buy_date" \in DOMAIN item
            THEN <<[key |-> KeyText.buy_date, value |-> [str |-> Text(item.buy_date)]]>>
            ELSE <<>>)]

PyPortfolio(p) == [list |-> [i \in 1..Len(p) |-> PyPosition(p[i])]]

---------------------------------------------------------------------------
(* The session: render_sidebar's mutations of the position list and the    *)
(* script run of render_main that values it                                *)

MaxPositions == 2

\* what the user can submit in the add form: ticker, shares, the input
\* method, and the unit cost or the current total value
FormInputs ==
    { [ticker |-> AAPL, shares |-> I(10), method |-> "cost", amount |-> I(150)],
      [ticker |-> AAPL, shares |-> I(5), method |-> "value", amount |-> I(750)],
      [ticker |-> TOYOTA, shares |-> I(100), method |-> "cost", amount |-> I(20)],
      [ticker |-> RYTO, shares |-> I(10), method |-> "cost", amount |-> I(150)],
      [ticker |-> XJP, shares |-> I(10), method |-> "cost", amount |-> I(150)],
      [ticker |-> <<>>, shares |-> I(10), method |-> "cost", amount |-> I(150)],
      [ticker |-> AAPL, shares |-> I(0), method |-> "cost", amount |-> I(150)],
      [ticker |-> AAPL, shares |-> I(10), method |-> "cost", amount |-> I(0)] }

\* str.upper() on the characters the tickers use
Upper(c) ==
    CASE c = "a" -> "A"
      [] c = "p" -> "P"
      [] c = "l" -> "L"
      [] c = "t" -> "T"
      [] c = "n" -> "N"
      [] OTHER -> c

UpperStr(s) == [i \in 1..Len(s) |-> Upper(s[i])]

\* str.strip() on the blanks
RECURSIVE Strip(_)
Strip(s) ==
    IF s = <<>> THEN s
    ELSE IF Head(s) = " " THEN Strip(Tail(s))
    ELSE IF s[Len(s)] = " " THEN Strip(SubSeq(s, 1, Len(s) - 1))
    ELSE s

NoDate == <<>>

\* a position with its purchase date
Dated(item, buy_date) ==
    [ticker |-> item.ticker, shares |-> item.shares, cost_price |-> item.cost_price,
     buy_date |-> buy_date]

ADate == <<"2", "0", "2", "4", "-", "0", "1", "-", "1", "5">>

\* an uploaded file as read_csv parses it: the header and the rows, every
\* required value present.  A cell of a numeric column is the number; a cell
\* of buy_date is there when the file has the column.
CsvFiles ==
    { [columns |-> {"ticker", "shares", "cost_price", "buy_date"},
       rows |-> <<[ticker |-> <<"a", "a", "p", "l">>, shares |-> I(10),
                   cost_price |-> I(0), buy_date |-> ADate]>>],
      [columns |-> {"ticker", "shares", "cost_price"},
       rows |-> <<[ticker |-> AAPL, shares |-> I(10), cost_price |-> I(150)],
                  [ticker |-> TOYOTA, shares |-> I(-5), cost_price |-> I(20)]>>],
      [columns |-> {"ticker", "shares", "cost_price"},
       rows |-> <<[ticker |-> AAPL, shares |-> I(10), cost_price |-> I(150)],
                  [ticker |-> TOYOTA, shares |-> I(100), cost_price |-> I(20)],
                  [ticker |-> AAPL, shares |-> I(5), cost_price |-> I(150)]>>],
      [columns |-> {"ticker", "shares", "cost_price", "buy_date"},
       rows |-> <<[ticker |-> AAPL, shares |-> I(100), cost_price |-> I(150),
                   buy_date |-> ADate]>>],
      [columns |-> {"ticker", "shares"},
       rows |-> <<[ticker |-> AAPL, shares |-> I(10), cost_price |-> I(150)]>>] }

\* an empty cell, which read_csv reads as the float nan
MissingCell == <<>>

\* a cell of a numeric column that holds a text: the column is read as
\* strings
TextCell == <<"abc">>

\* float(cell) raises ValueError
FloatRaises(cell) == Len(cell) = 1

\* float(cell) on a number or on nan
FloatOf(cell) == IF cell = MissingCell THEN NaN ELSE cell

\* str(cell) on a text or on nan
StrOf(cell) == IF cell = MissingCell THEN <<"n", "a", "n">> ELSE cell

\* import_csv: [] when a required column is missing or a conversion raises,
\* otherwise one record per row
import_csv(file) ==
    IF ~({"ticker", "shares", "cost_price"} \subseteq file.columns) THEN <<>>
    ELSE IF \E i \in 1..Len(file.rows) :
                FloatRaises(file.rows[i].shares) \/ FloatRaises(file.rows[i].cost_price)
    THEN <<>>
    ELSE [i \in 1..Len(file.rows) |->
            [ticker |-> UpperStr(Strip(StrOf(file.rows[i].ticker))),
             shares |-> FloatOf(file.rows[i].shares),
             cost_price |-> FloatOf(file.rows[i].cost_price),
             buy_date |-> IF "buy_date" \in file.columns
                          THEN StrOf(file.rows[i].buy_date) ELSE NoDate]]

NoMarket == [t \in {} |-> 0]

\* nothing computed: the script stopped or was rerun before render_main's
\* data section
NoView ==
    [rendered |-> FALSE, holdings |-> <<>>, summary |-> ZeroSummary,
     weights |-> <<>>, w |-> NoMarket, portfolio_returns |-> <<>>,
     current_values |-> NoMarket, total_value |-> Zero, dividends |-> NoMarket]

NoMetrics == [ZeroMetrics EXCEPT !.computed = FALSE]

\* no simulation run yet
NoSim ==
    [computed |-> FALSE, initial_value |-> Zero, years |-> 0, n_simulations |-> 0,
     daily_returns |-> <<>>, price_paths |-> <<>>, charted |-> FALSE,
     p10 |-> <<>>, p50 |-> <<>>, p90 |-> <<>>]

\* no rebalancing computed yet
NoRebalance ==
    [computed |-> FALSE, target_allocations |-> <<>>, current_values |-> <<>>,
     total_value |-> Zero, rows |-> <<>>, actions |-> <<>>]

\* no optimization run yet
NoFrontier ==
    [computed |-> FALSE, min_var_result |-> [success |-> FALSE, x |-> <<>>],
     max_sharpe_result |-> [success |-> FALSE, x |-> <<>>],
     result |-> [kind |-> "None"], objective |-> SymZero, rendered |-> FALSE,
     sharpe_ratios |-> <<>>, sharpe |-> <<>>]

\* a session whose page was opened without the query parameter p: the first
\* script run is over and nothing was restored
NoSession ==
    [p |-> <<>>, has_p |-> FALSE, decoded |-> [list |-> <<>>], restored |-> FALSE,
     opened |-> TRUE]

\* nothing encoded or decoded
NoCodec == [encoded |-> <<>>, decoded |-> <<>>, called |-> "none"]

\* the generator as the process starts it: seeded from the operating
\* system's entropy, its stream unknown
Unseeded == [seeded |-> FALSE, drawn |-> 0]

\* the position of the script run is not followed: a function is applied to
\* its arguments outside a session
NoRun ==
    [phase |-> "off", button |-> FALSE, pending |-> FALSE, click |-> FALSE,
     serving |-> 0, latest |-> 0, superseded |-> 0]

\* the script run is at the given place of render_main
ScriptAt(phase) == run.phase \in {"off", phase}

\* the script run moves on to the given place
Step(r, phase) == IF r.phase = "off" THEN r ELSE [r EXCEPT !.phase = phase]

\* a variant in which a script run is never stopped
NeverInterrupted(r) == FALSE

\* a Streamlit call of the script finds a rerun requested: the run is
\* stopped there, before the call shows anything
Interrupted(r) == r.pending

\* the run stopped at a Streamlit call
Stopped(r) == [r EXCEPT !.phase = "idle", !.superseded = @ + 1]

Init ==
    /\ portfolio = <<>>
    /\ market = NoMarket
    /\ fx \in {I(r) : r \in FxRates}
    /\ view = NoView
    /\ returns = <<>>
    /\ metrics = NoMetrics
    /\ sim = NoSim
    /\ frontier = NoFrontier
    /\ rebalance = NoRebalance
    /\ session = NoSession
    /\ codec = NoCodec
    /\ rng = Unseeded
    /\ run = NoRun

\* the value stored under a key of a decoded dict
ValueOf(entries, key) ==
    entries[CHOOSE e \in 1..Len(entries) : entries[e].key = key].value

HasKey(entries, key) == \E e \in 1..Len(entries) : entries[e].key = key

\* a decoded JSON number as the arithmetic takes it
NumberOf(v) == IF "int" \in DOMAIN v THEN I(v.int) ELSE v.float

\* the decoded list as the position list of the model.  restore_from_url
\* stores whatever decode_portfolio returned; the links of the model decode
\* to lists of dicts with the three required keys.
Positions(tree) ==
    [i \in 1..Len(tree.list) |->
        LET d == tree.list[i].dict
            item == [ticker |-> Str(ValueOf(d, KeyText.ticker).str),
                     shares |-> NumberOf(ValueOf(d, KeyText.shares)),
                     cost_price |-> NumberOf(ValueOf(d, KeyText.cost_price))]
        IN  IF HasKey(d, KeyText.buy_date)
            THEN Dated(item, Str(ValueOf(d, KeyText.buy_date).str))
            ELSE item]

\* the list and the mark after `if portfolio:` on the decoded value
StoreDecoded(s, p, decoded) ==
    IF s.has_p /\ Truthy(decoded)
    THEN [portfolio |-> Positions(decoded), restored |-> TRUE]
    ELSE [portfolio |-> p, restored |-> s.restored]

\* restore_from_url: with p among the query parameters and a decoded value
\* that is truthy, the list is overwritten and the session marked.
\* decode_portfolio(params["p"]) depends on p alone, which a session never
\* changes: s.decoded is its value.
restore_from_url(s, p) == StoreDecoded(s, p, s.decoded)

\* a variant that restores on every run
RestoreStepUnguarded(s, p) == restore_from_url(s, p)

\* the top of render_sidebar: restore_from_url only while "restored" is not
\* in the session state
RestoreStep(s, p) ==
    IF ~s.restored THEN restore_from_url(s, p)
    ELSE [portfolio |-> p, restored |-> s.restored]

\* the list and the mark a script run works with once the top of
\* render_sidebar has run
AfterRestore == RestoreStep(session, portfolio)

\* the sample data of render_main's empty-portfolio page
DemoPortfolio ==
    << Dated([ticker |-> AAPL, shares |-> I(10), cost_price |-> I(150)],
             <<"2", "0", "2", "4", "-", "0", "1", "-", "1", "5">>),
       Dated([ticker |-> <<"G", "O", "O", "G", "L">>, shares |-> I(5),
              cost_price |-> I(140)],
             <<"2", "0", "2", "4", "-", "0", "2", "-", "0", "1">>),
       Dated([ticker |-> <<"M", "S", "F", "T">>, shares |-> I(8),
              cost_price |-> I(380)],
             <<"2", "0", "2", "4", "-", "0", "3", "-", "1", "0">>),
       Dated([ticker |-> TOYOTA, shares |-> I(100), cost_price |-> I(2500)],
             <<"2", "0", "2", "4", "-", "0", "1", "-", "2", "0">>),
       Dated([ticker |-> <<"6", "7", "5", "8", ".", "T">>, shares |-> I(50),
              cost_price |-> I(12000)],
             <<"2", "0", "2", "4", "-", "0", "4", "-", "0", "5">>) >>

\* the branch of the form that derives the unit cost from the current value
ImpliedCost(inp, mc) ==
    LET info == fetch_stock_info(mc.info)
        current_price == IF info.current_price = Zero /\ mc.hist5d # <<>>
                         THEN Last(mc.hist5d) ELSE info.current_price
        actual_current_value == RMul(current_price, inp.shares)
    IN  RMul(current_price, RDiv(inp.amount, actual_current_value))

\* the session state after the top of render_sidebar.  The widgets exist
\* once the page was rendered, so every widget event comes after the first
\* script run.
Marked(top) == [session EXCEPT !.restored = top.restored, !.opened = TRUE]

\* a script run without a widget event: the page is opened or rerun
Rerun ==
    \E top \in {AfterRestore} :
        /\ portfolio' = top.portfolio
        /\ session' = Marked(top)
        /\ UNCHANGED <<market, fx, view, returns, metrics, sim, frontier, rebalance,
                     codec, rng, run>>

\* "add" submitted with a valid entry: the position is appended and the
\* script reruns
AddPosition(inp) ==
    \E top \in {AfterRestore} :
        /\ session.opened
        /\ Len(top.portfolio) < MaxPositions
        /\ inp.ticker # <<>> /\ RGt(inp.shares, Zero)
        /\ RGt(inp.amount, Zero)
        /\ \/ /\ inp.method = "cost"
              /\ portfolio' = Append(top.portfolio,
                     [ticker |-> inp.ticker, shares |-> inp.shares,
                      cost_price |-> inp.amount])
           \/ /\ inp.method = "value"
              /\ \E mc \in MarketCases :
                    /\ ResolvePrice(fetch_stock_info(mc.info), mc.hist5d) # Zero
                    /\ portfolio' = Append(top.portfolio,
                           [ticker |-> inp.ticker, shares |-> inp.shares,
                            cost_price |-> ImpliedCost(inp, mc)])
        /\ session' = Marked(top)
        /\ view' = NoView /\ market' = NoMarket
        /\ UNCHANGED <<fx, returns, metrics, sim, frontier, rebalance,
                     codec, rng, run>>

\* "add" submitted with an entry the form refuses: an error is shown and
\* nothing is stored
RejectPosition(inp) ==
    \E top \in {AfterRestore} :
        /\ session.opened
        /\ ~(inp.ticker # <<>> /\ RGt(inp.shares, Zero) /\ RGt(inp.amount, Zero))
        /\ portfolio' = top.portfolio
        /\ session' = Marked(top)
        /\ UNCHANGED <<market, fx, view, returns, metrics, sim, frontier, rebalance,
                     codec, rng, run>>

\* a variant that drops the row and every row after it
PopThrough(p, i) == SubSeq(p, 1, i - 1)

\* list.pop(i) on the row i of the list
Pop(p, i) ==
    [k \in 1..(Len(p) - 1) |-> IF k < i THEN p[k] ELSE p[k + 1]]

\* the delete button of row i: portfolio.pop(i)
DeletePosition(i) ==
    \E top \in {AfterRestore} :
        /\ session.opened
        /\ i \in 1..Len(top.portfolio)
        /\ portfolio' = Pop(top.portfolio, i)
        /\ session' = Marked(top)
        /\ view' = NoView /\ market' = NoMarket
        /\ UNCHANGED <<fx, returns, metrics, sim, frontier, rebalance,
                     codec, rng, run>>

\* a file uploaded and the import confirmed: the list is replaced
ImportCsv(file) ==
    \E top \in {AfterRestore} :
        /\ session.opened
        /\ import_csv(file) # <<>>
        /\ portfolio' = import_csv(file)
        /\ session' = Marked(top)
        /\ view' = NoView /\ market' = NoMarket
        /\ UNCHANGED <<fx, returns, metrics, sim, frontier, rebalance,
                     codec, rng, run>>

\* the reset button
ResetPortfolio ==
    \E top \in {AfterRestore} :
        /\ session.opened
        /\ portfolio' = <<>>
        /\ session' = Marked(top)
        /\ view' = NoView /\ market' = NoMarket
        /\ UNCHANGED <<fx, returns, metrics, sim, frontier, rebalance,
                     codec, rng, run>>

\* the demo button of render_main, shown while the list is empty
LoadDemo ==
    \E top \in {AfterRestore} :
        /\ session.opened
        /\ top.portfolio = <<>>
        /\ portfolio' = DemoPortfolio
        /\ session' = Marked(top)
        /\ view' = NoView /\ market' = NoMarket
        /\ UNCHANGED <<fx, returns, metrics, sim, frontier, rebalance,
                     codec, rng, run>>

\* one script run of render_main on a non-empty portfolio: the gateway
\* answers for every ticker of the portfolio and the analytics are computed.
\* Every mutation of the list reruns the script; a rerun with nothing changed
\* reads the same cached answers and computes the same view, so one run per
\* mutation is modelled.
RenderMain ==
    /\ portfolio # <<>>
    /\ ~view.rendered
    /\ \E m \in [TickersOf(portfolio) -> MarketCases] :
          /\ market' = m
          /\ view' =
               LET holdings_df == calculate_holdings(portfolio, m, fx)
               IN  [rendered |-> TRUE,
                    holdings |-> holdings_df,
                    summary |-> calculate_portfolio_summary(holdings_df),
                    weights |-> IF holdings_df = <<>> THEN <<>>
                                ELSE SummaryWeights(holdings_df, TotalValue(holdings_df)),
                    w |-> ReturnWeights(portfolio, m, fx),
                    portfolio_returns |-> calculate_portfolio_returns(portfolio, m, fx),
                    current_values |-> RebalanceCurrentValues(portfolio, m, fx),
                    total_value |-> RebalanceTotalValue(portfolio, m, fx),
                    dividends |-> aggregate_dividend_by_month(portfolio, m, fx)]
    /\ UNCHANGED <<portfolio, fx, returns, metrics, sim, frontier, rebalance,
                 session, codec, rng, run>>

Next ==
    \/ \E inp \in FormInputs : AddPosition(inp)
    \/ \E inp \in FormInputs : RejectPosition(inp)
    \/ \E i \in 1..Len(portfolio) : DeletePosition(i)
    \/ \E file \in CsvFiles : ImportCsv(file)
    \/ ResetPortfolio
    \/ RenderMain

Spec == Init /\ [][Next]_vars

---------------------------------------------------------------------------
(* calculate_risk_metrics applied to return series built one observation   *)
(* at a time                                                               *)

MaxObs == 11

FreeLen == 4

\* ordinary daily returns, and returns of -100 % and below
RegularReturns == {R(1, 2), R(-1, 2)}

ExtremeReturns == {I(-1), I(-2)}

InitRisk ==
    /\ portfolio = <<>>
    /\ market = NoMarket
    /\ fx = I(150)
    /\ view = NoView
    /\ returns = <<>>
    /\ metrics = NoMetrics
    /\ sim = NoSim
    /\ frontier = NoFrontier
    /\ rebalance = NoRebalance
    /\ session = NoSession
    /\ codec = NoCodec
    /\ rng = Unseeded
    /\ run = NoRun

\* one of the first FreeLen observations: any return
Observe(r) ==
    /\ Len(returns) < FreeLen
    /\ returns' = Append(returns, r)
    /\ metrics' = NoMetrics
    /\ UNCHANGED <<portfolio, market, fx, view, sim, frontier, rebalance,
                 session, codec, rng, run>>

\* a later observation: the series goes on with period 2
ObserveNext ==
    /\ Len(returns) >= FreeLen /\ Len(returns) >= 2
    /\ Len(returns) < MaxObs
    /\ returns' = Append(returns, returns[Len(returns) - 1])
    /\ metrics' = NoMetrics
    /\ UNCHANGED <<portfolio, market, fx, view, sim, frontier, rebalance,
                 session, codec, rng, run>>

CalculateRiskMetrics ==
    /\ ~metrics.computed
    /\ metrics' = calculate_risk_metrics(returns)
    /\ UNCHANGED <<portfolio, market, fx, view, returns, sim, frontier, rebalance,
                 session, codec, rng, run>>

NextRisk ==
    \/ \E r \in RegularReturns \cup ExtremeReturns : Observe(r)
    \/ ObserveNext
    \/ CalculateRiskMetrics

SpecRisk == InitRisk /\ [][NextRisk]_vars


---------------------------------------------------------------------------
(* run_monte_carlo and the percentile lines create_monte_carlo_chart draws. *)
(* A path is the sequence of its total_days + 1 entries: entry t is at     *)
(* position t + 1.                                                         *)

\* n_simulations
NSims == 3

\* the horizons tried: 1..MaxYears years
MaxYears == 1

\* rows of daily draws that keep a path within a few values: no move; up
\* 100 % and down 50 % in turn; the same the other way round; -200 % every
\* day, which flips the sign of the path
Flat(n) == [t \in 1..n |-> Zero]

UpDown(n) == [t \in 1..n |-> IF t % 2 = 1 THEN One ELSE R(-1, 2)]

DownUp(n) == [t \in 1..n |-> IF t % 2 = 1 THEN R(-1, 2) ELSE One]

Swing(n) == [t \in 1..n |-> I(-2)]

\* one row of np.random.normal(mu, sigma, size = n), sigma given by its
\* square: NaN when sigma is NaN, mu when sigma is 0, any reals otherwise
NormalDraws(mu, sigma_sq, n) ==
    IF IsNaN(mu) \/ IsNaN(sigma_sq) THEN {[t \in 1..n |-> NaN]}
    ELSE IF sigma_sq = Zero THEN {[t \in 1..n |-> mu]}
    ELSE {Flat(n), UpDown(n), DownUp(n), Swing(n)}

\* the loop `for t in range(1, total_days + 1)` for one path, over the steps
\* lo..hi: entry t is entry t - 1 (prev for t = lo) times 1 + the draw of
\* step t.  The steps are evaluated half by half to keep the evaluation
\* shallow.
RECURSIVE PathSteps(_, _, _, _)
PathSteps(prev, draws, lo, hi) ==
    IF lo > hi THEN <<>>
    ELSE IF lo = hi THEN <<RMul(prev, RAdd(One, draws[lo]))>>
    ELSE LET mid == (lo + hi) \div 2
             first == PathSteps(prev, draws, lo, mid)
         IN  first \o PathSteps(Last(first), draws, mid + 1, hi)

\* one row of price_paths after the loop, entries 0..(Len(acc) - 1) in acc
PricePath(acc, draws, total_days) ==
    acc \o PathSteps(Last(acc), draws, Len(acc), total_days)

\* returns.empty or initial_value <= 0
NothingToSimulate(s, initial_value) == s = <<>> \/ RLe(initial_value, Zero)

\* price_paths: column 0 is initial_value, then the loop
PricePaths(initial_value, daily_returns, total_days) ==
    [i \in 1..Len(daily_returns) |->
        PricePath(<<initial_value>>, daily_returns[i], total_days)]

run_monte_carlo(s, initial_value, years, daily_returns) ==
    IF NothingToSimulate(s, initial_value) THEN <<>>
    ELSE PricePaths(initial_value, daily_returns, TRADING_DAYS * years)

\* np.percentile of one column: NaN as soon as one entry is NaN
ColumnPercentile(col, q) ==
    IF \E i \in 1..Len(col) : IsNaN(col[i]) THEN NaN ELSE Percentile(col, q)

\* np.percentile(price_paths, q, axis=0)
PercentilePath(price_paths, q) ==
    [k \in 1..Len(price_paths[1]) |->
        ColumnPercentile([i \in 1..Len(price_paths) |-> price_paths[i][k]], q)]

\* the return series handed to the simulation: none, one observation, two
\* equal observations, two different ones
SimReturns == {<<>>, <<R(1, 100)>>, <<Zero, Zero>>, <<R(-1, 100), R(1, 100)>>}

SimInitialValues == {I(-100), Zero, I(100), I(10000)}

InitSim ==
    /\ portfolio = <<>>
    /\ market = NoMarket
    /\ fx = I(150)
    /\ view = NoView
    /\ returns \in SimReturns
    /\ metrics = NoMetrics
    /\ \E iv \in SimInitialValues, y \in 1..MaxYears :
          sim = [NoSim EXCEPT !.initial_value = iv, !.years = y]
    /\ frontier = NoFrontier
    /\ rebalance = NoRebalance
    /\ session = NoSession
    /\ codec = NoCodec
    /\ rng = Unseeded
    /\ run = NoRun

\* the row of path i that np.random.normal hands back once the generator
\* was seeded and `drawn` numbers were taken from it: the seed fixes the
\* stream, so the row is a function of the numbers taken before it
SeededRow(drawn, i, mu, sigma_sq, n) ==
    IF IsNaN(mu) \/ IsNaN(sigma_sq) THEN [t \in 1..n |-> NaN]
    ELSE IF sigma_sq = Zero THEN [t \in 1..n |-> mu]
    ELSE CASE (drawn + i) % 4 = 0 -> Flat(n)
           [] (drawn + i) % 4 = 1 -> UpDown(n)
           [] (drawn + i) % 4 = 2 -> DownUp(n)
           [] OTHER -> Swing(n)

\* the matrices np.random.normal(mu, sigma, size=(n_simulations, total_days))
\* can hand back in the state g of the process-wide generator
DrawnMatrices(g, s, n_simulations, total_days) ==
    IF g.seeded
    THEN {[i \in 1..n_simulations |->
              SeededRow(g.drawn, i, Mean(s), Variance(s), total_days)]}
    ELSE [1..n_simulations -> NormalDraws(Mean(s), Variance(s), total_days)]

\* the generator after the draw
GeneratorAfterDraw(g, count) ==
    IF g.seeded THEN [g EXCEPT !.drawn = @ + count] ELSE g

\* the button: run_monte_carlo(port_returns, initial_value, years, n_sims)
RunMonteCarlo ==
    /\ ScriptAt("simulation")
    /\ ~sim.computed
    /\ LET total_days == TRADING_DAYS * sim.years
           nothing == NothingToSimulate(returns, sim.initial_value)
       IN  \E daily_returns \in (IF nothing THEN {<<>>}
                                 ELSE DrawnMatrices(rng, returns, NSims, total_days)) :
            /\ rng' = IF nothing THEN rng
                      ELSE GeneratorAfterDraw(rng, NSims * total_days)
            /\ sim' = [sim EXCEPT
                        !.computed = TRUE,
                        !.n_simulations = NSims,
                        !.daily_returns =
                            IF NothingToSimulate(returns, sim.initial_value)
                            THEN <<>> ELSE daily_returns,
                        !.price_paths =
                            run_monte_carlo(returns, sim.initial_value, sim.years,
                                            daily_returns)]
    /\ run' = Step(run, "simulation_chart")
    /\ UNCHANGED <<portfolio, market, fx, view, returns, metrics, frontier, rebalance,
                 session, codec>>

\* create_monte_carlo_chart: an empty figure for an empty result, else the
\* three percentile lines
CreateMonteCarloChart ==
    /\ ScriptAt("simulation_chart")
    /\ sim.computed /\ ~sim.charted
    /\ IF Interrupted(run)
       THEN sim' = sim /\ run' = Stopped(run)
       ELSE /\ sim' = IF sim.price_paths = <<>>
                      THEN [sim EXCEPT !.charted = TRUE]
                      ELSE [sim EXCEPT !.charted = TRUE,
                                       !.p10 = PercentilePath(sim.price_paths, 10),
                                       !.p50 = PercentilePath(sim.price_paths, 50),
                                       !.p90 = PercentilePath(sim.price_paths, 90)]
            /\ run' = Step(run, "idle")
    /\ UNCHANGED <<portfolio, market, fx, view, returns, metrics, frontier, rebalance,
                 session, codec, rng>>

NextSim ==
    \/ RunMonteCarlo
    \/ CreateMonteCarloChart

SpecSim == InitSim /\ [][NextSim]_vars

---------------------------------------------------------------------------
(* generate_efficient_frontier_data.  A volatility is the square root of a *)
(* rational and is carried as [sq |-> that rational].                      *)

\* len(prices) < 20
MinCommonDates == 20

\* n_portfolios: the size of the random cloud
NPortfolios == 2

\* the sequence s with its entries computed once
Array(s) == s \o <<>>

\* the positions whose history is not empty, in portfolio order: the
\* columns of price_data
PriceColumns(p, m) ==
    SelectSeq([i \in 1..Len(p) |-> i],
              LAMBDA i : fetch_stock_data(m, p[i].ticker) # <<>>)

\* pd.concat(price_data, axis=1).dropna(): the dates every column has, in
\* date order (every history is in date order)
PriceDates(p, m, cols) ==
    IF cols = <<>> THEN <<>>
    ELSE LET first == fetch_stock_data(m, p[cols[1]].ticker)
         IN  SelectSeq([k \in 1..Len(first) |-> first[k].date],
                       LAMBDA d : \A c \in 1..Len(cols) :
                                    d \in Dates(fetch_stock_data(m, p[cols[c]].ticker)))

\* the close of column c on date d
PriceAt(p, m, cols, c, d) ==
    LET hist == fetch_stock_data(m, p[cols[c]].ticker)
    IN  hist[At(hist, d)].close

\* prices.pct_change().dropna(): row k is the change from date k to k + 1
FrontierReturns(p, m, cols, dates) ==
    Array([k \in 1..(Len(dates) - 1) |->
        Array([c \in 1..Len(cols) |->
            RDiv(RSub(PriceAt(p, m, cols, c, dates[k + 1]),
                      PriceAt(p, m, cols, c, dates[k])),
                 PriceAt(p, m, cols, c, dates[k]))])])

ColumnOf(rets, c) == Array([k \in 1..Len(rets) |-> rets[k][c]])

\* returns.mean() * TRADING_DAYS
MeanReturns(rets, n) ==
    Array([c \in 1..n |-> RMul(Mean(ColumnOf(rets, c)), I(TRADING_DAYS))])

\* the sample covariance of two columns (ddof = 1)
Covariance(x, y) ==
    LET mx == Mean(x)
        my == Mean(y)
    IN  RDiv(RSum([k \in 1..Len(x) |-> RMul(RSub(x[k], mx), RSub(y[k], my))]),
             I(Len(x) - 1))

\* returns.cov() * TRADING_DAYS
CovMatrix(rets, n) ==
    Array([c \in 1..n |->
        Array([d \in 1..n |->
            RMul(Covariance(ColumnOf(rets, c), ColumnOf(rets, d)),
                 I(TRADING_DAYS))])])

\* weights' cov weights
portfolio_variance(weights, cov_matrix) ==
    RSum([c \in 1..Len(weights) |->
            RMul(weights[c],
                 RSum([d \in 1..Len(weights) |-> RMul(cov_matrix[c][d], weights[d])]))])

\* (return, volatility) of a weight vector
calculate_portfolio_performance(weights, mean_returns, cov_matrix) ==
    [return |-> RSum([c \in 1..Len(weights) |-> RMul(weights[c], mean_returns[c])]),
     volatility |-> [sq |-> portfolio_variance(weights, cov_matrix)]]

\* (p_return - risk_free_rate) / p_volatility if p_volatility > 0 else 0,
\* negated
negative_sharpe_ratio(weights, mean_returns, cov_matrix, risk_free_rate) ==
    LET perf == calculate_portfolio_performance(weights, mean_returns, cov_matrix)
    IN  IF RGt(perf.volatility.sq, Zero)
        THEN [num |-> RNeg(RSub(perf.return, risk_free_rate)), sq |-> perf.volatility.sq]
        ELSE SymZero

\* current_price of the frontier's weighting: the quote, else the last
\* 5-day close
FrontierPrice(m, ticker) ==
    LET info == fetch_stock_info(m[ticker].info)
        hist == fetch_stock_data_5d(m, ticker)
    IN  IF info.current_price = Zero
        THEN (IF hist # <<>> THEN Last(hist) ELSE info.current_price)
        ELSE info.current_price

FrontierValue(p, m, exchange_rate, i) ==
    PositionValue(p[i], FrontierPrice(m, p[i].ticker), exchange_rate)

\* current_weights: value / total_value if total_value > 0 else 0
CurrentWeights(p, m, exchange_rate) ==
    LET total_value == RSum([i \in 1..Len(p) |-> FrontierValue(p, m, exchange_rate, i)])
    IN  [i \in 1..Len(p) |->
            IF RGt(total_value, Zero)
            THEN RDiv(FrontierValue(p, m, exchange_rate, i), total_value)
            ELSE Zero]

\* np.random.seed(42) followed by np.random.random: the stream of uniforms,
\* to two decimals
Seed42 ==
    << R(37, 100), R(95, 100), R(73, 100), R(60, 100), R(16, 100), R(16, 100),
       R(6, 100), R(87, 100), R(60, 100), R(71, 100), R(2, 100), R(97, 100) >>

\* the k-th draw of the cloud: num_assets uniforms divided by their sum
RandomWeights(k, num_assets) ==
    LET u == [c \in 1..num_assets |-> Seed42[(k - 1) * num_assets + c]]
    IN  [c \in 1..num_assets |-> RDiv(u[c], RSum(u))]

\* what scipy's minimize(..., method="SLSQP") can hand back for num_assets
\* assets: a converged result at a feasible point, or a result that did not
\* converge, whose x is the last iterate (within the bounds, any sum)
SolverOutcomes(num_assets) ==
    { [success |-> TRUE, x |-> [c \in 1..num_assets |-> R(1, num_assets)]],
      [success |-> TRUE, x |-> [c \in 1..num_assets |-> IF c = 1 THEN One ELSE Zero]],
      [success |-> FALSE, x |-> [c \in 1..num_assets |-> R(1, num_assets)]],
      [success |-> FALSE, x |-> [c \in 1..num_assets |-> One]] }

NoSolve == [success |-> FALSE, x |-> <<>>]

\* the outcomes of the function: None, an exception, or the result dict
None == [kind |-> "None"]

Raised == [kind |-> "raise"]

\* one entry of the result: the weights and their performance
FrontierPortfolio(weights, mean_returns, cov_matrix) ==
    LET perf == calculate_portfolio_performance(weights, mean_returns, cov_matrix)
    IN  [weights |-> weights, return |-> perf.return, volatility |-> perf.volatility]

\* a variant that accepts a single column of prices
TooFewAssetsOffByOne(p, cols) == Len(p) < 1 \/ Len(cols) < 1

\* len(portfolio) < 2, then len(price_data) < 2
TooFewAssets(p, cols) == Len(p) < 2 \/ Len(cols) < 2

\* what the function derives from the price histories: the columns of
\* price_data, the common dates, mean_returns and cov_matrix
FrontierStatistics(p, m) ==
    LET cols == PriceColumns(p, m)
        dates == PriceDates(p, m, cols)
        rets == FrontierReturns(p, m, cols, dates)
    IN  [cols |-> cols, dates |-> dates,
         mean_returns |-> MeanReturns(rets, Len(cols)),
         cov_matrix |-> CovMatrix(rets, Len(cols))]

\* the function from the statistics on
FrontierResult(p, m, exchange_rate, n_portfolios, min_var_result, max_sharpe_result, stats) ==
    LET num_assets == Len(p)
    IN  IF TooFewAssets(p, stats.cols) THEN None
        ELSE IF stats.dates = <<>> \/ Len(stats.dates) < MinCommonDates THEN None
        \* weights of num_assets entries against Len(cols) columns: numpy
        \* raises on the first product of the cloud
        ELSE IF num_assets # Len(stats.cols) THEN Raised
        ELSE [kind |-> "data",
              tickers |-> [i \in 1..Len(p) |-> p[i].ticker],
              random_portfolios |->
                  [k \in 1..n_portfolios |->
                      FrontierPortfolio(RandomWeights(k, num_assets),
                                        stats.mean_returns, stats.cov_matrix)],
              current_portfolio |->
                  FrontierPortfolio(CurrentWeights(p, m, exchange_rate),
                                    stats.mean_returns, stats.cov_matrix),
              min_variance |->
                  FrontierPortfolio(min_var_result.x, stats.mean_returns,
                                    stats.cov_matrix),
              max_sharpe |->
                  FrontierPortfolio(max_sharpe_result.x, stats.mean_returns,
                                    stats.cov_matrix)]

generate_efficient_frontier_data(p, m, exchange_rate, n_portfolios, min_var_result, max_sharpe_result) ==
    FrontierResult(p, m, exchange_rate, n_portfolios, min_var_result,
                   max_sharpe_result, FrontierStatistics(p, m))

\* (return - RISK_FREE_RATE) / volatility as numpy divides: by a zero
\* volatility it is NaN or a signed infinity
SharpeOf(entry) ==
    IF entry.volatility.sq = Zero
    THEN Sym(RDiv(RSub(entry.return, RISK_FREE_RATE), Zero))
    ELSE [num |-> RSub(entry.return, RISK_FREE_RATE), sq |-> entry.volatility.sq]

\* initial_guess = num_assets * [1.0 / num_assets]
InitialGuess(num_assets) == [c \in 1..num_assets |-> R(1, num_assets)]

\* the first value of the maximum-Sharpe objective the solver computes: at
\* the initial guess
ObjectiveAtStart(p, stats) ==
    negative_sharpe_ratio(InitialGuess(Len(p)), stats.mean_returns,
                          stats.cov_matrix, RISK_FREE_RATE)

\* price histories of n observations on the dates 1..n
FlatHist(n) == [i \in 1..n |-> Obs(i, 100)]

ZigZagHist(n) == [i \in 1..n |-> Obs(i, IF i % 2 = 1 THEN 100 ELSE 200)]

ZagZigHist(n) == [i \in 1..n |-> Obs(i, IF i % 2 = 1 THEN 200 ELSE 100)]

\* the answers the gateway can give for one ticker of the optimization
FrontierMarketCases ==
    { \* live quote, a price that never moved
      [info |-> InfoLive, hist5d |-> <<I(100)>>, hist |-> FlatHist(20), divs |-> <<>>],
      \* live quote, a price that moves, one more observation
      [info |-> InfoLive, hist5d |-> <<I(100)>>, hist |-> ZigZagHist(21), divs |-> <<>>],
      \* no quote and the 5-day fetch empty, the long history present
      [info |-> InfoError, hist5d |-> <<>>, hist |-> ZagZigHist(20), divs |-> <<>>],
      \* live quote, one observation too few
      [info |-> InfoLive, hist5d |-> <<I(100)>>, hist |-> ZigZagHist(19), divs |-> <<>>],
      \* live quote, no history
      [info |-> InfoLive, hist5d |-> <<I(100)>>, hist |-> <<>>, divs |-> <<>>] }

Position(ticker, shares) ==
    [ticker |-> ticker, shares |-> I(shares), cost_price |-> I(100)]

\* the portfolios handed to the optimization: one position; two tickers of
\* equal and of unequal value at the live quote; three tickers; one ticker
\* held twice
FrontierPortfolios ==
    { <<Position(AAPL, 1)>>,
      <<Position(AAPL, 1), Position(TOYOTA, 150)>>,
      <<Position(AAPL, 1), Position(TOYOTA, 450)>>,
      <<Position(AAPL, 1), Position(TOYOTA, 150), Position(XJP, 150)>>,
      <<Position(AAPL, 1), Position(AAPL, 3)>> }

InitFrontier ==
    /\ portfolio \in FrontierPortfolios
    /\ market = NoMarket
    /\ fx = I(150)
    /\ view = NoView
    /\ returns = <<>>
    /\ metrics = NoMetrics
    /\ sim = NoSim
    /\ frontier = NoFrontier
    /\ rebalance = NoRebalance
    /\ session = NoSession
    /\ codec = NoCodec
    /\ rng = Unseeded
    /\ run = NoRun

\* st.cache_data on the fetch functions: the answers a run has fetched are
\* handed out again while they have not expired; without them the gateway
\* is asked
CachedOr(cache, answers) == IF cache = NoMarket THEN answers ELSE {cache}

\* the process-wide generator after the function: np.random.seed(42) is
\* reached once the early returns are passed; the cloud then takes
\* num_assets numbers per portfolio, and only the first portfolio's when the
\* product with mean_returns raises
GeneratorAfterFrontier(g, kind, n_portfolios, num_assets) ==
    CASE kind = "None" -> g
      [] kind = "raise" -> [seeded |-> TRUE, drawn |-> num_assets]
      [] OTHER -> [seeded |-> TRUE, drawn |-> n_portfolios * num_assets]

\* generate_efficient_frontier_data(portfolio): the gateway or the cache
\* answers, the two minimize calls return, the result is assembled
GenerateEfficientFrontier ==
    /\ ScriptAt("frontier")
    /\ ~frontier.computed
    /\ \E m \in CachedOr(market, [TickersOf(portfolio) -> FrontierMarketCases]) :
       \E stats \in {FrontierStatistics(portfolio, m)} :
          LET kind == FrontierResult(portfolio, m, fx, NPortfolios, NoSolve,
                                     NoSolve, stats).kind
              solved == kind = "data"
              outcomes == IF solved THEN SolverOutcomes(Len(portfolio)) ELSE {NoSolve}
          IN  \E min_var_result \in outcomes, max_sharpe_result \in outcomes :
                 /\ market' = m
                 /\ rng' = GeneratorAfterFrontier(rng, kind, NPortfolios, Len(portfolio))
                 /\ run' = Step(run, IF kind = "raise" THEN "idle" ELSE "frontier_chart")
                 /\ frontier' =
                      [frontier EXCEPT
                         !.computed = TRUE,
                         !.min_var_result = min_var_result,
                         !.max_sharpe_result = max_sharpe_result,
                         !.objective = IF solved THEN ObjectiveAtStart(portfolio, stats)
                                       ELSE SymZero,
                         !.result = FrontierResult(portfolio, m, fx, NPortfolios,
                                        min_var_result, max_sharpe_result, stats)]
    /\ UNCHANGED <<portfolio, fx, view, returns, metrics, sim, rebalance,
                 session, codec>>

\* `if frontier_data:` in render_main: create_efficient_frontier_chart colours
\* the cloud by Sharpe ratio, then the Sharpe ratio of the three named
\* portfolios is shown
RenderFrontier ==
    /\ ScriptAt("frontier_chart")
    /\ frontier.computed /\ ~frontier.rendered
    /\ frontier.result.kind = "data"
    /\ IF Interrupted(run)
       THEN frontier' = frontier /\ run' = Stopped(run)
       ELSE /\ frontier' =
                 [frontier EXCEPT
                    !.rendered = TRUE,
                    !.sharpe_ratios =
                        [k \in 1..Len(frontier.result.random_portfolios) |->
                            SharpeOf(frontier.result.random_portfolios[k])],
                    !.sharpe =
                        [current_portfolio |->
                             SharpeOf(frontier.result.current_portfolio),
                         min_variance |-> SharpeOf(frontier.result.min_variance),
                         max_sharpe |-> SharpeOf(frontier.result.max_sharpe)]]
            /\ run' = Step(run, "button")
    /\ UNCHANGED <<portfolio, market, fx, view, returns, metrics, sim, rebalance,
                 session, codec, rng>>

NextFrontier ==
    \/ GenerateEfficientFrontier
    \/ RenderFrontier

SpecFrontier == InitFrontier /\ [][NextFrontier]_vars

---------------------------------------------------------------------------
(* calculate_rebalance_actions on its own arguments                        *)

\* a quote of 100 in the ticker's currency
InfoHundred ==
    [ok |-> TRUE, currentPrice |-> <<I(100)>>, regularMarketPrice |-> Absent,
     previousClose |-> Absent, dividendYield |-> Absent]

\* the answers the gateway can give for one ticker of the rebalancing: a
\* quote; no quote but a last close; no price at all
RebalanceMarketCases ==
    { [info |-> InfoHundred, hist5d |-> <<I(90)>>, hist |-> <<>>, divs |-> <<>>],
      [info |-> InfoError, hist5d |-> <<I(90), I(100)>>, hist |-> <<>>, divs |-> <<>>],
      [info |-> InfoError, hist5d |-> <<>>, hist |-> <<>>, divs |-> <<>>] }

\* the portfolios rebalanced: 7,000 / 3,000 and 5,100 / 4,900 at a price of
\* 100; a foreign and a local ticker; one ticker held twice
RebalancePortfolios ==
    { <<Position(TOYOTA, 70), Position(XJP, 30)>>,
      <<Position(TOYOTA, 51), Position(XJP, 49)>>,
      <<Position(AAPL, 1), Position(TOYOTA, 150)>>,
      <<Position(AAPL, 1), Position(AAPL, 3)>> }

\* the percentages a target can take
TargetPcts == {I(0), I(50), I(100)}

InitRebalance ==
    /\ portfolio \in RebalancePortfolios
    /\ market = NoMarket
    /\ fx = I(150)
    /\ view = NoView
    /\ returns = <<>>
    /\ metrics = NoMetrics
    /\ sim = NoSim
    /\ frontier = NoFrontier
    /\ rebalance = NoRebalance
    /\ session = NoSession
    /\ codec = NoCodec
    /\ rng = Unseeded
    /\ run = NoRun

\* the targets are entered: a percentage for every ticker, or for some of
\* them when the function is called directly
SetTargets(target_allocations) ==
    /\ ~rebalance.computed
    /\ rebalance.target_allocations = <<>>
    /\ target_allocations # <<>>
    /\ rebalance' = [rebalance EXCEPT !.target_allocations = target_allocations]
    /\ UNCHANGED <<portfolio, market, fx, view, returns, metrics, sim, frontier,
                 session, codec, rng, run>>

\* calculate_rebalance_actions(portfolio, target_allocations, exchange_rate)
CalculateRebalanceActions ==
    /\ ~rebalance.computed
    /\ rebalance.target_allocations # <<>>
    /\ \E m \in [TickersOf(portfolio) -> RebalanceMarketCases] :
          /\ market' = m
          /\ rebalance' =
               [rebalance EXCEPT
                  !.computed = TRUE,
                  !.current_values = RebalanceCurrentValues(portfolio, m, fx),
                  !.total_value = RebalanceTotalValue(portfolio, m, fx),
                  !.rows = RebalanceRows(portfolio, m,
                               rebalance.target_allocations, fx),
                  !.actions = calculate_rebalance_actions(portfolio, m,
                                  rebalance.target_allocations, fx)]
    /\ UNCHANGED <<portfolio, fx, view, returns, metrics, sim, frontier,
                 session, codec, rng, run>>

NextRebalance ==
    \/ \E S \in SUBSET TickersOf(portfolio) :
          \E target_allocations \in [S -> TargetPcts] : SetTargets(target_allocations)
    \/ CalculateRebalanceActions

SpecRebalance == InitRebalance /\ [][NextRebalance]_vars

---------------------------------------------------------------------------
(* encode_portfolio and decode_portfolio applied to portfolios and to the  *)
(* strings a link can carry                                                *)

\* the records encoded: tickers with a dot, a quote, a backslash and a
\* character outside ASCII; whole, fractional, negative and special numbers;
\* with a date, with an empty date, without the key
CodecPositions ==
    { Dated([ticker |-> t, shares |-> s, cost_price |-> c], d) :
         t \in {AAPL, TOYOTA, <<"A", "\"", "\\", "U+682A">>},
         s \in {I(10), R(1, 2), NaN},
         c \in {I(150), R(2025, 100), I(-5)},
         d \in {<<"2", "0", "2", "4", "-", "0", "1", "-", "1", "5">>, <<>>} }
    \cup {[ticker |-> AAPL, shares |-> I(10), cost_price |-> Zero]}

\* the portfolios encoded: the empty list, every record alone, and lists of
\* two and three records
CodecPortfolios ==
    {<<>>} \cup {<<item>> : item \in CodecPositions}
    \cup { <<Dated(Position(AAPL, 10), <<>>), Position(TOYOTA, 100)>>,
           <<Position(AAPL, 1), Position(AAPL, 3), Dated(Position(XJP, 2), <<"x">>)>> }

\* strings that are no encoding of a portfolio
Links ==
    { \* the empty string
      Text(<<>>),
      \* a single character
      Text(<<"N">>),
      \* data that ends inside a group
      Text(<<"a", "b", "c">>),
      \* no character of the alphabet
      Text(<<"!", "!", "!", "!">>),
      \* a byte that is no UTF-8
      Text(<<"_", "w", "=", "=">>),
      \* the text [1, 2 : no JSON
      Text(<<"W", "z", "E", "s", "I", "D", "I", "=">>),
      \* the text 5
      Text(<<"N", "Q", "=", "=">>),
      \* the text {}
      Text(<<"e", "3", "0", "=">>),
      \* the text "" : an empty string
      Text(<<"I", "i", "I", "=">>),
      \* the text {"ticker": "AAPL"} : a dict, not a list
      Text(<<"e", "y", "J", "0", "a", "W", "N", "r", "Z", "X", "I", "i", "O", "i", "A", "i", "Q", "U", "F", "Q", "T", "C", "J", "9">>),
      \* the text [] with a character outside the alphabet in it
      Text(<<"W", "1", "!", "0", "=">>),
      \* the text [{"ticker": "AAPL", "shares": 1}] with blanks in it
      Text(<<"W", "3", "s", "i", "d", "G", "l", "j", " ", "a", "2", "V", "y", "I", "j", "o", "g", "I", "k", "F", "B", "U", "E", "w", "i", "L", "C", "A", "i", "c", "2", "h", "h", "c", "m", "V", "z", "I", "j", "o", "g", "M", "X", "1", "d">>) }

InitCodec ==
    /\ portfolio \in CodecPortfolios
    /\ market = NoMarket
    /\ fx = I(150)
    /\ view = NoView
    /\ returns = <<>>
    /\ metrics = NoMetrics
    /\ sim = NoSim
    /\ frontier = NoFrontier
    /\ rebalance = NoRebalance
    /\ session = NoSession
    /\ codec = NoCodec
    /\ rng = Unseeded
    /\ run = NoRun

\* generate_share_url: encode_portfolio(portfolio)
EncodePortfolio ==
    /\ codec.called = "none"
    /\ codec' = [codec EXCEPT !.encoded = encode_portfolio(PyPortfolio(portfolio)),
                              !.called = "encode"]
    /\ UNCHANGED <<portfolio, market, fx, view, returns, metrics, sim, frontier,
                   rebalance, session, rng, run>>

\* a string arrives as the query parameter p
ReceiveLink(encoded) ==
    /\ codec.called = "none"
    /\ codec' = [codec EXCEPT !.encoded = encoded, !.called = "receive"]
    /\ UNCHANGED <<portfolio, market, fx, view, returns, metrics, sim, frontier,
                   rebalance, session, rng, run>>

\* decode_portfolio(encoded)
DecodePortfolio ==
    /\ codec.called \in {"encode", "receive"}
    /\ codec' = [codec EXCEPT !.decoded = decode_portfolio(codec.encoded),
                              !.called = IF codec.called = "encode" THEN "decode"
                                         ELSE "decode_received"]
    /\ UNCHANGED <<portfolio, market, fx, view, returns, metrics, sim, frontier,
                   rebalance, session, rng, run>>

NextCodec ==
    \/ EncodePortfolio
    \/ \E encoded \in Links : ReceiveLink(encoded)
    \/ DecodePortfolio

SpecCodec == InitCodec /\ [][NextCodec]_vars

---------------------------------------------------------------------------
(* One browser session of render_sidebar and the empty page of render_main: *)
(* the page is opened with or without a shared link, and every widget event *)
(* is a script run that starts at the top of render_sidebar                 *)

\* the portfolios whose links are opened: one position, two positions, none,
\* and a position no form would accept
SharedPortfolios ==
    { <<Dated(Position(AAPL, 10), ADate)>>,
      <<Dated(Position(AAPL, 1), ADate), Position(TOYOTA, 100)>>,
      <<>>,
      <<[ticker |-> <<>>, shares |-> I(-5), cost_price |-> I(-1)]>> }

\* the values of the query parameter p: the links generate_share_url makes
\* of these portfolios, and strings decode_portfolio fails on
SessionLinks ==
    {encode_portfolio(PyPortfolio(p)) : p \in SharedPortfolios}
    \cup {Text(<<"a", "b", "c">>), Text(<<"_", "w", "=", "=">>)}

\* the files uploaded: those of CsvFiles, and files with an empty cell, with
\* a text in a numeric column, and with blanks around the ticker
CsvUploads ==
    CsvFiles \cup
    { [columns |-> {"ticker", "shares", "cost_price"},
       rows |-> <<[ticker |-> AAPL, shares |-> I(10), cost_price |-> I(150)],
                  [ticker |-> TOYOTA, shares |-> MissingCell, cost_price |-> I(20)]>>],
      [columns |-> {"ticker", "shares", "cost_price"},
       rows |-> <<[ticker |-> MissingCell, shares |-> I(10),
                   cost_price |-> MissingCell]>>],
      [columns |-> {"ticker", "shares", "cost_price"},
       rows |-> <<[ticker |-> AAPL, shares |-> I(10), cost_price |-> I(150)],
                  [ticker |-> TOYOTA, shares |-> TextCell, cost_price |-> I(20)]>>],
      [columns |-> {"ticker", "shares", "cost_price", "buy_date"},
       rows |-> <<[ticker |-> <<" ", "a", "a", "p", "l", " ">>, shares |-> I(10),
                   cost_price |-> I(150), buy_date |-> MissingCell]>>] }

InitSession ==
    /\ portfolio = <<>>
    /\ market = NoMarket
    /\ fx = I(150)
    /\ view = NoView
    /\ returns = <<>>
    /\ metrics = NoMetrics
    /\ sim = NoSim
    /\ frontier = NoFrontier
    /\ rebalance = NoRebalance
    /\ session \in {[NoSession EXCEPT !.opened = FALSE]}
                   \cup {[p |-> link, has_p |-> TRUE,
                           decoded |-> decode_portfolio(link),
                           restored |-> FALSE, opened |-> FALSE] :
                            link \in SessionLinks}
    /\ codec = NoCodec
    /\ rng = Unseeded
    /\ run = NoRun

NextSession ==
    \/ Rerun
    \/ \E inp \in FormInputs : AddPosition(inp)
    \/ \E inp \in FormInputs : RejectPosition(inp)
    \/ \E i \in 1..Len(DemoPortfolio) : DeletePosition(i)
    \/ \E file \in CsvUploads : ImportCsv(file)
    \/ ResetPortfolio
    \/ LoadDemo

SpecSession == InitSession /\ [][NextSession]_vars

---------------------------------------------------------------------------
(* The script runs of one session over the optimization and the simulation *)
(* of render_main.  Every widget event asks for a rerun of the whole       *)
(* script; the session has one script thread, which takes up the request   *)
(* when it is idle and stops a run in progress at its next Streamlit call. *)
(* The results are local variables of the run.  The generator of           *)
(* np.random belongs to the process and outlives the runs.                 *)

\* the widget events of one session
MaxRequests == 3

ScriptPortfolios ==
    { <<Position(AAPL, 1), Position(TOYOTA, 150)>> }

\* the page is being opened: the first run is asked for
FirstRequest ==
    [phase |-> "idle", button |-> FALSE, pending |-> TRUE, click |-> FALSE,
     serving |-> 0, latest |-> 1, superseded |-> 0]

\* the answers the data section of render_main has fetched and cached
\* before the script reaches the tabs: for every ticker a history of 21
\* closes, or for every ticker none
ScriptMarketCases ==
    { [info |-> InfoLive, hist5d |-> <<I(100)>>, hist |-> ZigZagHist(21), divs |-> <<>>],
      [info |-> InfoLive, hist5d |-> <<I(100)>>, hist |-> <<>>, divs |-> <<>>] }

InitScript ==
    /\ portfolio \in ScriptPortfolios
    /\ \E mc \in ScriptMarketCases : market = [t \in TickersOf(portfolio) |-> mc]
    /\ fx = I(150)
    /\ view = NoView
    /\ returns = [k \in 1..Len(calculate_portfolio_returns(portfolio, market, fx)) |->
                     calculate_portfolio_returns(portfolio, market, fx)[k].ret]
    /\ metrics = NoMetrics
    /\ sim = [NoSim EXCEPT
                !.initial_value =
                    calculate_portfolio_summary(
                        calculate_holdings(portfolio, market, fx)).total_value_jpy,
                !.years = 1]
    /\ frontier = NoFrontier
    /\ rebalance = NoRebalance
    /\ session = NoSession
    /\ codec = NoCodec
    /\ rng = Unseeded
    /\ run = FirstRequest

\* a widget event: the simulation button is clicked, or another widget is
\* used.  The requests that wait are merged into one, which keeps the click.
Request(click) ==
    /\ run.latest < MaxRequests
    /\ run' = [run EXCEPT !.pending = TRUE, !.click = @ \/ click, !.latest = @ + 1]
    /\ UNCHANGED <<portfolio, market, fx, view, returns, metrics, sim, frontier,
                 rebalance, session, codec, rng>>

\* main() is run for the request that waits: the locals of the last run are
\* gone, the button is True in the run its click asked for
StartRun ==
    /\ run.phase = "idle" /\ run.pending
    /\ run' = [run EXCEPT !.phase = IF Len(portfolio) < 2 THEN "button" ELSE "frontier",
                          !.button = run.click, !.pending = FALSE, !.click = FALSE,
                          !.serving = run.latest]
    /\ frontier' = NoFrontier
    /\ sim' = [NoSim EXCEPT !.initial_value = sim.initial_value, !.years = sim.years]
    /\ UNCHANGED <<portfolio, market, fx, view, returns, metrics, rebalance, session,
                 codec, rng>>

\* `if frontier_data:` with None: nothing is drawn and the script goes on to
\* the widgets of the simulation
NoFrontierData ==
    /\ run.phase = "frontier_chart"
    /\ frontier.computed /\ frontier.result.kind = "None"
    /\ run' = IF Interrupted(run) THEN Stopped(run) ELSE Step(run, "button")
    /\ UNCHANGED <<portfolio, market, fx, view, returns, metrics, sim, frontier,
                 rebalance, session, codec, rng>>

\* `if st.button(...)`: the simulation is run in the run its click asked for
SimulationButton ==
    /\ run.phase = "button"
    /\ run' = IF Interrupted(run) THEN Stopped(run)
              ELSE Step(run, IF run.button THEN "simulation" ELSE "idle")
    /\ UNCHANGED <<portfolio, market, fx, view, returns, metrics, sim, frontier,
                 rebalance, session, codec, rng>>

NextScript ==
    \/ \E click \in BOOLEAN : Request(click)
    \/ StartRun
    \/ GenerateEfficientFrontier
    \/ RenderFrontier
    \/ NoFrontierData
    \/ SimulationButton
    \/ RunMonteCarlo
    \/ CreateMonteCarloChart

SpecScript == InitScript /\ [][NextScript]_vars

---------------------------------------------------------------------------
(* Reference notions the properties are stated with                        *)

\* the sum of column col over rows 1..n, row by row
RECURSIVE ColumnTotal(_, _, _)
ColumnTotal(df, col, n) ==
    IF n = 0 THEN Zero ELSE RAdd(ColumnTotal(df, col, n - 1), df[n][col])

\* the live quote of a raw answer; 0 when there is none
Quote(raw) ==
    IF ~raw.ok THEN Zero
    ELSE IF raw.currentPrice # Absent THEN raw.currentPrice[1]
    ELSE IF raw.regularMarketPrice # Absent THEN raw.regularMarketPrice[1]
    ELSE Zero

Without(s, i) == SubSeq(s, 1, i - 1) \o SubSeq(s, i + 1, Len(s))

HasLocalSuffix(ticker) ==
    EndsWith(<<".", "T">>, ticker) \/ EndsWith(<<".", "J", "P">>, ticker)

PositionsOf(p, ticker) == {i \in 1..Len(p) : p[i].ticker = ticker}

\* the value of all positions of one ticker together
AggregateValue(p, ticker, price, exchange_rate) ==
    LET v == [i \in PositionsOf(p, ticker) |->
                 IF IsJpy(ticker)
                 THEN RMul(price, p[i].shares)
                 ELSE RMul(RMul(price, p[i].shares), exchange_rate)]
    IN  RSumSet(v, DOMAIN v)

\* the shares of all positions of one ticker together
AggregateShares(p, ticker) ==
    LET n == [i \in PositionsOf(p, ticker) |-> p[i].shares]
    IN  RSumSet(n, DOMAIN n)

Rows == 1..Len(view.holdings)

---------------------------------------------------------------------------
(* C1  The summary totals are the column sums of the holdings table:       *)
(* total_value_jpy is the sum of market_value_jpy over all rows,           *)
(* total_cost_jpy the sum of cost_total_jpy, and total_pnl_jpy their       *)
(* difference; the empty table gives zeros.                                *)
C1_SummaryTotals ==
    /\ view.rendered =>
         /\ view.summary.total_value_jpy =
               ColumnTotal(view.holdings, "market_value_jpy", Len(view.holdings))
         /\ view.summary.total_cost_jpy =
               ColumnTotal(view.holdings, "cost_total_jpy", Len(view.holdings))
         /\ view.summary.total_pnl_jpy =
               RSub(view.summary.total_value_jpy, view.summary.total_cost_jpy)
    /\ LET empty == calculate_portfolio_summary(calculate_holdings(<<>>, NoMarket, fx))
       IN  /\ empty.total_value_jpy = Zero
           /\ empty.total_cost_jpy = Zero
           /\ empty.total_pnl_jpy = Zero

\* a table of several rows, one of them valued at 0, with a positive total
C1_Witness ==
    /\ view.rendered
    /\ Len(view.holdings) >= 2
    /\ \E i \in Rows : view.holdings[i].market_value_jpy = Zero
    /\ \E i \in Rows : view.holdings[i].currency = "USD"
                       /\ RGt(view.holdings[i].market_value_jpy, Zero)

(* C2  Every row has market_value = current_price x shares, cost_total =   *)
(* cost_price x shares, pnl = market_value - cost_total and pnl_pct =      *)
(* pnl / cost_total x 100, with pnl_pct = 0 when cost_total is 0; 10       *)
(* shares at cost 150 and price 165 give 1650, 150 and 10.                 *)
C2_RowArithmetic ==
    view.rendered =>
        \A i \in Rows :
            LET row == view.holdings[i]
                item == portfolio[i]
            IN  /\ row.market_value = RMul(row.current_price, item.shares)
                /\ row.cost_total = RMul(item.cost_price, item.shares)
                /\ row.pnl = RSub(row.market_value, row.cost_total)
                /\ row.cost_total # Zero =>
                      RMul(row.pnl_pct, row.cost_total) = RMul(row.pnl, I(100))
                /\ row.cost_total = Zero => row.pnl_pct = Zero
                /\ (item.shares = I(10) /\ item.cost_price = I(150)
                       /\ row.current_price = I(165)) =>
                      /\ row.market_value = I(1650)
                      /\ row.pnl = I(150)
                      /\ row.pnl_pct = I(10)

\* a table with a row of total cost 0 and the row of the example
C2_Witness ==
    /\ view.rendered
    /\ \E i \in Rows : /\ view.holdings[i].cost_total = Zero
                       /\ view.holdings[i].market_value # Zero
    /\ \E i \in Rows : /\ portfolio[i].shares = I(10)
                       /\ portfolio[i].cost_price = I(150)
                       /\ view.holdings[i].current_price = I(165)

(* C3, as amended  The price of a position is the live quote when the      *)
(* quote is not 0; when the quote is 0 or unavailable it is the last close *)
(* of the 5-day history calculate_holdings fetches, whenever that 5-day    *)
(* history is not empty; so the price is not 0 for every position whose    *)
(* 5-day history is not empty and has non-zero closes.                     *)
C3_PriceFromQuoteOrFiveDayClose ==
    view.rendered =>
        \A i \in Rows :
            LET t == portfolio[i].ticker
                q == Quote(market[t].info)
                h == market[t].hist5d
                price == view.holdings[i].current_price
            IN  /\ q # Zero => price = q
                /\ (q = Zero /\ h # <<>>) => price = h[Len(h)]
                /\ (h # <<>> /\ \A k \in 1..Len(h) : h[k] # Zero) => price # Zero

\* a position without a quote that is priced at its last 5-day close
C3_Witness ==
    /\ view.rendered
    /\ \E i \in Rows :
          LET t == portfolio[i].ticker
          IN  /\ Quote(market[t].info) = Zero
              /\ market[t].hist5d # <<>>
              /\ view.holdings[i].current_price = I(160)

(* C3, as stated  Whenever any price history of the ticker exists, with    *)
(* non-zero closes, the price of the position is not 0.                    *)
C3_PriceNonZeroWheneverHistory ==
    view.rendered =>
        \A i \in Rows :
            LET t == portfolio[i].ticker
                h5 == market[t].hist5d
                h == market[t].hist
            IN  ( /\ h5 # <<>> \/ h # <<>>
                  /\ \A k \in 1..Len(h5) : h5[k] # Zero
                  /\ \A k \in 1..Len(h) : h[k].close # Zero )
                => view.holdings[i].current_price # Zero

(* C4  A ticker without any resolvable price does not abort the valuation: *)
(* the table has one row per position, the row of that ticker has market   *)
(* value 0, and the other rows are those of the portfolio without the      *)
(* failing position.                                                       *)
C4_PartialFailure ==
    view.rendered =>
        /\ Len(view.holdings) = Len(portfolio)
        /\ \A i \in Rows :
              LET t == portfolio[i].ticker
              IN  (Quote(market[t].info) = Zero /\ market[t].hist5d = <<>>) =>
                     /\ view.holdings[i].market_value = Zero
                     /\ view.holdings[i].market_value_jpy = Zero
                     /\ calculate_holdings(Without(portfolio, i), market, fx)
                           = Without(view.holdings, i)

\* a failing ticker beside a position that is valued
C4_Witness ==
    /\ view.rendered
    /\ \E i, j \in Rows :
          /\ i # j
          /\ Quote(market[portfolio[i].ticker].info) = Zero
          /\ market[portfolio[i].ticker].hist5d = <<>>
          /\ market[portfolio[i].ticker].hist = <<>>
          /\ RGt(view.holdings[j].market_value_jpy, Zero)

(* C5  With two positions of one ticker, the aggregations keyed by ticker  *)
(* use both positions: the per-ticker values of the rebalancing sum to its *)
(* total, the return weight of the ticker is its aggregate value over the  *)
(* aggregate total, and the monthly dividend income of the ticker counts   *)
(* the shares of both positions.                                           *)
C5_DuplicateTickersAggregate ==
    view.rendered =>
        /\ RSumSet(view.current_values, DOMAIN view.current_values) = view.total_value
        /\ LET ts == DOMAIN view.w
               value == [t \in ts |->
                           AggregateValue(portfolio, t, ReturnsPrice(market, t), fx)]
           IN  \A t \in ts :
                   ~IsNaN(view.w[t]) =>
                       view.w[t] = RDiv(value[t], RSumSet(value, ts))
        /\ \A mo \in DOMAIN view.dividends :
              \A t \in DOMAIN view.dividends[mo] :
                  LET divs == market[t].divs
                      per_share == RSum([k \in 1..Len(divs) |->
                                      IF divs[k].month = mo THEN divs[k].amount ELSE Zero])
                      rate == IF IsJpy(t) THEN One ELSE fx
                  IN  view.dividends[mo][t] =
                          RMul(RMul(per_share, AggregateShares(portfolio, t)), rate)

(* C6  A position is valued without the exchange rate exactly when its     *)
(* ticker ends in ".T" or ".JP"; for every other ticker market value and   *)
(* total cost are multiplied by the exchange rate.                         *)
C6_LocalSuffixDecidesCurrency ==
    view.rendered =>
        \A i \in Rows :
            LET row == view.holdings[i]
            IN  IF HasLocalSuffix(portfolio[i].ticker)
                THEN /\ row.market_value_jpy = row.market_value
                     /\ row.cost_total_jpy = row.cost_total
                ELSE /\ row.market_value_jpy = RMul(row.market_value, fx)
                     /\ row.cost_total_jpy = RMul(row.cost_total, fx)

(* C7  daily_change_pct and weighted_dividend_yield are averages weighted  *)
(* by market_value_jpy / total_value; when total_value > 0 the weights are *)
(* non-negative and sum to 1, and when total_value is 0 both are 0.        *)
C7_SummaryWeights ==
    view.rendered =>
        LET total == view.summary.total_value_jpy
            wt == view.weights
            n == Len(view.holdings)
            weighted(col) ==
                ColumnTotal([i \in 1..n |->
                    [x |-> RMul(view.holdings[i][col], wt[i])]], "x", n)
        IN  /\ RGt(total, Zero) =>
                 /\ \A i \in 1..n : RLe(Zero, wt[i])
                 /\ ColumnTotal([i \in 1..n |-> [x |-> wt[i]]], "x", n) = One
                 /\ view.summary.daily_change_pct = weighted("daily_change_pct")
                 /\ view.summary.weighted_dividend_yield = weighted("dividend_yield")
            /\ total = Zero =>
                 /\ view.summary.daily_change_pct = Zero
                 /\ view.summary.weighted_dividend_yield = Zero

(* C8  Assets with fewer than 2 price observations are left out; the       *)
(* weights of the others are their values over the total of those others,  *)
(* the blended return on each common date is the weighted sum of their     *)
(* returns, and the series is empty when no asset has usable history.      *)
C8_BlendedReturns ==
    view.rendered =>
        LET ts == {t \in TickersOf(portfolio) : Len(market[t].hist) >= 2}
            value == [t \in ts |->
                        AggregateValue(portfolio, t, ReturnsPrice(market, t), fx)]
            total == RSumSet(value, ts)
            ret(t, d) ==
                LET h == market[t].hist
                    k == CHOOSE k \in 2..Len(h) : h[k].date = d
                IN  RDiv(RSub(h[k].close, h[k - 1].close), h[k - 1].close)
            common == {d \in UNION {Dates(market[t].hist) : t \in ts} :
                          \A t \in ts : \E k \in 2..Len(market[t].hist) :
                              market[t].hist[k].date = d}
            series == view.portfolio_returns
        IN  /\ ts = {} => series = <<>>
            /\ ts # {} =>
                 /\ DOMAIN view.w = ts
                 /\ RSumSet(view.w, ts) = One
                 /\ Dates(series) = common
                 /\ \A k \in 1..Len(series) :
                       series[k].ret =
                          RSumSet([t \in ts |->
                              RMul(ret(t, series[k].date), RDiv(value[t], total))], ts)

---------------------------------------------------------------------------
(* Properties of calculate_risk_metrics, under SpecRisk                    *)

\* the wealth index after t observations: the product of (1 + return)
RECURSIVE Wealth(_, _)
Wealth(s, t) == IF t = 0 THEN One ELSE RMul(Wealth(s, t - 1), RAdd(One, s[t]))

\* the running peak at t: a wealth index of 1..t that none of them exceeds
Peak(s, t) ==
    CHOOSE x \in {Wealth(s, k) : k \in 1..t} :
        \A k \in 1..t : RLe(Wealth(s, k), x)

\* the drawdowns that are numbers
Drawdowns(s) ==
    {d \in {RDiv(RSub(Wealth(s, t), Peak(s, t)), Peak(s, t)) : t \in 1..Len(s)} :
        ~IsNaN(d)}

(* C9  A series of fewer than 10 observations, the empty one included,     *)
(* gets the record in which every metric is 0.                             *)
C9_ShortSeriesAllZero ==
    (metrics.computed /\ Len(returns) < 10) =>
        /\ metrics.sharpe_ratio.num = Zero
        /\ metrics.sortino_ratio.num = Zero
        /\ metrics.max_drawdown = Zero
        /\ metrics.volatility.num = Zero
        /\ metrics.var_95 = Zero
        /\ metrics.var_99 = Zero
        /\ metrics.beta = Zero
        /\ metrics.total_return = Zero
        /\ metrics.cagr.base = One

\* the metrics of a series of 9 observations
C9_Witness == metrics.computed /\ Len(returns) = 9

(* C10, as amended  For a series of at least 10 observations whose first   *)
(* return is not -1 (later returns of -1 or below included), max_drawdown  *)
(* is the least of the drawdowns (wealth index - running peak) / running   *)
(* peak, undefined 0/0 entries skipped, and it is <= 0.                    *)
C10_MaxDrawdownNonPositive ==
    (metrics.computed /\ Len(returns) >= 10 /\ returns[1] # I(-1)) =>
        /\ RLe(metrics.max_drawdown, Zero)
        /\ metrics.max_drawdown \in Drawdowns(returns)
        /\ \A d \in Drawdowns(returns) : RLe(metrics.max_drawdown, d)

\* a series with a return of -1 or below after the first observation and a
\* real drawdown
C10_Witness ==
    /\ metrics.computed
    /\ Len(returns) >= 10
    /\ returns[1] # I(-1)
    /\ \E t \in 2..Len(returns) : RLe(returns[t], I(-1))
    /\ RLt(metrics.max_drawdown, Zero)

(* C10, as stated  For every series of at least 10 observations, returns   *)
(* of -1 or below included, max_drawdown is <= 0.                          *)
C10_MaxDrawdownNonPositiveAlways ==
    (metrics.computed /\ Len(returns) >= 10) => RLe(metrics.max_drawdown, Zero)

\* the sum of the squares of a series
SumSquares(s) == RSum([i \in 1..Len(s) |-> RMul(s[i], s[i])])

\* the annualized sample variance by the sum-of-squares formula:
\* 252 x (sum x^2 - (sum x)^2 / n) / (n - 1)
AnnualVariance(s) ==
    RMul(I(252),
         RDiv(RSub(SumSquares(s), RDiv(RMul(RSum(s), RSum(s)), I(Len(s)))),
              I(Len(s) - 1)))

\* mean x 252 - 0.005
ExcessReturn(s) == RSub(RDiv(RMul(I(252), RSum(s)), I(Len(s))), R(1, 200))

\* the sign of num / sqrt(sq): that of num over a positive root, 2 (no sign)
\* when the value is not a number or the root is not positive
SymSign(x) ==
    IF IsNaN(x.num) \/ IsNaN(x.sq) \/ ~RGt(x.sq, Zero) THEN 2 ELSE RSign(x.num)

(* C11  For a series of at least 10 observations sharpe_ratio is the excess *)
(* return (mean x 252 - risk-free rate) over the annualized volatility;     *)
(* with volatility > 0 it has the sign of the excess return, with           *)
(* volatility 0 it is 0.                                                    *)
C11_SharpeSign ==
    (metrics.computed /\ Len(returns) >= 10) =>
        /\ RGt(AnnualVariance(returns), Zero) =>
              /\ metrics.sharpe_ratio =
                    [num |-> ExcessReturn(returns), sq |-> AnnualVariance(returns)]
              /\ SymSign(metrics.sharpe_ratio) = RSign(ExcessReturn(returns))
        /\ AnnualVariance(returns) = Zero => metrics.sharpe_ratio = SymZero

\* a volatile series with a positive excess return, Sharpe ratio computed
C11_Witness ==
    /\ metrics.computed
    /\ Len(returns) >= 10
    /\ RGt(AnnualVariance(returns), Zero)
    /\ RGt(ExcessReturn(returns), Zero)
    /\ SymSign(metrics.sharpe_ratio) = 1

\* the downside deviation is undefined or zero: fewer than two negative
\* returns, or all negative returns equal
DownsideUndefined(s) ==
    LET neg == Negatives(s)
    IN  Len(neg) <= 1 \/ \A i \in 1..Len(neg) : neg[i] = neg[1]

(* C12  For a series of at least 10 observations sortino_ratio is the      *)
(* excess return over the annualized standard deviation of the negative    *)
(* returns, and it is 0 whenever that deviation is undefined or zero: no   *)
(* negative return, exactly one, or all negative returns equal.            *)
C12_SortinoZeroWhenDownsideUndefined ==
    (metrics.computed /\ Len(returns) >= 10) =>
        IF DownsideUndefined(returns)
        THEN metrics.sortino_ratio = SymZero
        ELSE metrics.sortino_ratio =
                [num |-> ExcessReturn(returns),
                 sq |-> AnnualVariance(Negatives(returns))]

---------------------------------------------------------------------------
(* Properties of the Monte Carlo simulation, under SpecSim                 *)

---------------------------------------------------------------------------
(* Properties of the efficient frontier, under SpecFrontier                *)

\* a weight vector on the simplex: no negative entry, sum 1 within 1e-6
OnSimplex(w) ==
    /\ \A c \in 1..Len(w) : RLe(Zero, w[c])
    /\ RLe(RSub(RSum(w), One), R(1, 1000000))
    /\ RLe(RSub(One, RSum(w)), R(1, 1000000))

\* the function returned a result dict
FrontierReturned == frontier.computed /\ frontier.result.kind = "data"

(* C15  In every result returned, each weight vector (every portfolio of   *)
(* the random cloud, the current, the minimum-variance and the             *)
(* maximum-Sharpe portfolio) has only non-negative entries that sum to 1   *)
(* within 1e-6, also when the total current value of the holdings is 0.    *)
C15_WeightsOnSimplex ==
    FrontierReturned =>
        /\ \A k \in 1..Len(frontier.result.random_portfolios) :
              OnSimplex(frontier.result.random_portfolios[k].weights)
        /\ OnSimplex(frontier.result.current_portfolio.weights)
        /\ OnSimplex(frontier.result.min_variance.weights)
        /\ OnSimplex(frontier.result.max_sharpe.weights)

\* the positions of the portfolio whose ticker has a price history
WithHistory ==
    {i \in 1..Len(portfolio) : market[portfolio[i].ticker].hist # <<>>}

\* the dates on which every such position has a price
CommonPriceDates ==
    {d \in 1..30 : \A i \in WithHistory :
        \E k \in 1..Len(market[portfolio[i].ticker].hist) :
            market[portfolio[i].ticker].hist[k].date = d}

ResultIfConverged ==
    generate_efficient_frontier_data(portfolio, market, fx, NPortfolios,
        [frontier.min_var_result EXCEPT !.success = TRUE],
        [frontier.max_sharpe_result EXCEPT !.success = TRUE])

(* C17  When the solver does not converge for the minimum-variance or the  *)
(* maximum-Sharpe problem, the caller is told: the function fails, or its  *)
(* result differs from the one a converged solve with the same weights     *)
(* gives; it never returns the solver's last weights unflagged.            *)
C17_NonConvergenceSurfaced ==
    (/\ FrontierReturned
     /\ ~(frontier.min_var_result.success /\ frontier.max_sharpe_result.success)) =>
        frontier.result # ResultIfConverged

(* C18  Wherever a Sharpe ratio is computed for a frontier weight vector   *)
(* whose volatility is 0 (the optimizer objective, the colouring of the    *)
(* cloud, the Sharpe ratio shown for the current, the minimum-variance and *)
(* the maximum-Sharpe portfolio), its value is 0.                          *)
C18_ZeroVolatilitySharpeIsZero ==
    (FrontierReturned /\ frontier.rendered) =>
        /\ \A k \in 1..Len(frontier.result.random_portfolios) :
              frontier.result.random_portfolios[k].volatility.sq = Zero =>
                  frontier.sharpe_ratios[k] = SymZero
        /\ \A e \in {"current_portfolio", "min_variance", "max_sharpe"} :
              frontier.result[e].volatility.sq = Zero =>
                  frontier.sharpe[e] = SymZero
        /\ (\A k \in 1..Len(frontier.result.random_portfolios) :
              frontier.result.random_portfolios[k].volatility.sq = Zero) =>
                  frontier.objective = SymZero

---------------------------------------------------------------------------
(* Properties of the rebalancing, under SpecRebalance                      *)

\* the target of a ticker, 0 when none was given
TargetOf(t) ==
    IF t \in DOMAIN rebalance.target_allocations
    THEN rebalance.target_allocations[t] ELSE Zero

\* targetValue - currentValue of a ticker
DiffValue(t) ==
    RSub(RDiv(RMul(rebalance.total_value, TargetOf(t)), I(100)),
         rebalance.current_values[t])

\* the actions emitted for a ticker
ActionsFor(t) ==
    {k \in 1..Len(rebalance.actions) : rebalance.actions[k].ticker = t}

\* the 70/30 split of a 10,000 portfolio with 50/50 targets
ScenarioC ==
    /\ portfolio = <<Position(TOYOTA, 70), Position(XJP, 30)>>
    /\ rebalance.computed
    /\ rebalance.current_values = (TOYOTA :> I(7000)) @@ (XJP :> I(3000))
    /\ rebalance.target_allocations = (TOYOTA :> I(50)) @@ (XJP :> I(50))

---------------------------------------------------------------------------
(* Properties of the dividend aggregation, under Spec                      *)

\* position i is the only one with its ticker, a foreign ticker held with
\* 100 shares, whose dividend history is one event of 1.0 per share, and
\* the exchange rate is 150
ScenarioD(i) ==
    /\ view.rendered
    /\ i \in 1..Len(portfolio)
    /\ \A j \in 1..Len(portfolio) : portfolio[j].ticker = portfolio[i].ticker => j = i
    /\ ~HasLocalSuffix(portfolio[i].ticker) /\ ~IsJpy(portfolio[i].ticker)
    /\ portfolio[i].shares = I(100)
    /\ Len(market[portfolio[i].ticker].divs) = 1
    /\ market[portfolio[i].ticker].divs[1].amount = One
    /\ fx = I(150)

\* the income reported for position i's ticker in the month of its event
ScenarioIncome(i) ==
    view.dividends[market[portfolio[i].ticker].divs[1].month][portfolio[i].ticker]

(* C20, as amended  One dividend event of 1.0 per share for a foreign      *)
(* ticker held with 100 shares, at an exchange rate of 150, is reported as *)
(* an income of 1.0 x 100 x 150 = 15,000 in the month of the event.        *)
C20_ScenarioDIncome ==
    \A i \in 1..Len(portfolio) : ScenarioD(i) => ScenarioIncome(i) = I(15000)

\* the scenario valued: 100 shares of AAPL, one dividend of 1.0
C20_Witness ==
    \E i \in 1..Len(portfolio) :
        ScenarioD(i) /\ portfolio[i].ticker = AAPL /\ ScenarioIncome(i) = I(15000)

(* C20, as stated  One dividend event of 1.0 per share for a foreign       *)
(* ticker held with 100 shares, at an exchange rate of 150, is reported as *)
(* an income of 150.0 in the month of the event.                           *)
C20_ScenarioDIncome150 ==
    \A i \in 1..Len(portfolio) : ScenarioD(i) => ScenarioIncome(i) = I(150)

---------------------------------------------------------------------------
(* Further properties of the optimization, under SpecFrontier              *)

\* the number of columns of prices: the length of mean_returns and the
\* order of cov_matrix
NumColumns == Len(PriceColumns(portfolio, market))

\* the weight vectors of a returned result
ResultWeights ==
    {frontier.result.random_portfolios[k].weights :
        k \in 1..Len(frontier.result.random_portfolios)}
    \cup {frontier.result.current_portfolio.weights,
          frontier.result.min_variance.weights,
          frontier.result.max_sharpe.weights}

(* C25  For a portfolio of at least 2 positions the function never raises: *)
(* it returns None or a complete result, and every weight vector of the    *)
(* result has as many entries as there are columns of prices.              *)
C25_FrontierNeverRaises ==
    (frontier.computed /\ Len(portfolio) >= 2) =>
        /\ frontier.result.kind \in {"None", "data"}
        /\ frontier.result.kind = "data" =>
              \A w \in ResultWeights : Len(w) = NumColumns

---------------------------------------------------------------------------
(* Further properties of the rebalancing, under SpecRebalance              *)

\* every ticker of the portfolio has a target and the targets add up to 100
TargetsComplete ==
    /\ DOMAIN rebalance.target_allocations = TickersOf(portfolio)
    /\ RSumSet(rebalance.target_allocations, TickersOf(portfolio)) = I(100)

(* C28  When every ticker has a target and the targets add up to 100, the  *)
(* differences diffValue of all tickers, before the threshold, add up to   *)
(* 0, also for a portfolio that holds a ticker twice.                      *)
C28_DifferencesCancel ==
    (rebalance.computed /\ TargetsComplete) =>
        RSum([k \in 1..Len(rebalance.rows) |-> rebalance.rows[k].diff_value]) = Zero

\* the price of one share of ticker t in the reporting currency
ReportingPrice(t) ==
    IF IsJpy(t) THEN RebalancePrice(market, t)
    ELSE RMul(RebalancePrice(market, t), fx)

(* C29  The share count of every action is the integer part of |diffValue| *)
(* divided by the price of a share in the reporting currency, so the count *)
(* times that price never exceeds |diffValue|; the count is 0 when the     *)
(* price is 0.                                                             *)
C29_ShareCountInReportingCurrency ==
    rebalance.computed =>
        \A k \in 1..Len(rebalance.actions) :
            LET row == rebalance.actions[k]
                price == ReportingPrice(row.ticker)
            IN  IF RGt(price, Zero)
                THEN /\ row.shares = RInt(RDiv(row.amount, price))
                     /\ RLe(RMul(I(row.shares), price), row.amount)
                ELSE row.shares = 0

---------------------------------------------------------------------------
(* Properties of the link encoding, under SpecCodec                        *)

\* a list of dicts
IsPortfolio(v) ==
    /\ "list" \in DOMAIN v
    /\ \A k \in 1..Len(v.list) : "dict" \in DOMAIN v.list[k]

\* the string is what encode_portfolio writes for the portfolio it reads as
ValidEncoding(encoded) ==
    /\ IsPortfolio(decode_portfolio(encoded))
    /\ encode_portfolio(decode_portfolio(encoded)) = encoded

(* C21  decode_portfolio(encode_portfolio(p)) equals p field for field for *)
(* every portfolio p, the empty list included; and decode_portfolio of a   *)
(* string that is not a valid encoding returns the empty list.             *)
C21_RoundTrip ==
    /\ codec.called = "decode" => codec.decoded = PyPortfolio(portfolio)
    /\ (codec.called = "decode_received" /\ ~ValidEncoding(codec.encoded)) =>
          codec.decoded = [list |-> <<>>]

---------------------------------------------------------------------------
(* Properties of the session, under SpecSession                            *)

RequiredColumns == {"ticker", "shares", "cost_price"}

\* the file has the required columns and every row a value in each of them
Complete(file) ==
    /\ RequiredColumns \subseteq file.columns
    /\ \A i \in 1..Len(file.rows) :
          /\ file.rows[i].ticker # MissingCell
          /\ file.rows[i].shares # MissingCell
          /\ file.rows[i].cost_price # MissingCell

(* C22  An import that is confirmed comes from a file that has the three   *)
(* required columns and a value for each of them in every row, and it puts *)
(* exactly one position per row into the list; a file with a missing       *)
(* column or a row lacking a required value is rejected as a whole.        *)
C22_ImportAllOrNothing ==
    [][\A file \in CsvUploads :
          ImportCsv(file) => Complete(file) /\ Len(portfolio') = Len(file.rows)]_vars

\* the list after the step is the list before it with one position more
IsAppend == /\ Len(portfolio') = Len(portfolio) + 1
            /\ SubSeq(portfolio', 1, Len(portfolio)) = portfolio

\* the list after the step is the list before it without one position
IsRemoval == \E i \in 1..Len(portfolio) : portfolio' = Without(portfolio, i)

\* the list after the step is a whole new list: the one decoded from the
\* link, the rows of an uploaded file, the empty list, or the demo data put
\* in place of the empty list
IsReplacement ==
    \/ /\ ~session.restored /\ session'.restored
       /\ portfolio' = Positions(session.decoded)
    \/ \E file \in CsvUploads : portfolio' = import_csv(file)
    \/ portfolio' = <<>>
    \/ portfolio = <<>> /\ portfolio' = DemoPortfolio

(* C23, as amended  Over any sequence of user interactions in a session,   *)
(* every change of the persisted position list appends one position,       *)
(* removes one position, or replaces the whole list: by the list decoded    *)
(* from the link on the restore, by the rows of a confirmed CSV import, by  *)
(* the empty list on reset, or by the demo data when the list is empty.  No *)
(* operation rewrites the list in any other way.                            *)
C23_AppendRemoveOrReplace == [][IsAppend \/ IsRemoval \/ IsReplacement]_portfolio

\* the demo data were loaded and one of the five positions deleted
C23_Witness ==
    /\ Len(portfolio) = Len(DemoPortfolio) - 1
    /\ \E i \in 1..Len(DemoPortfolio) : portfolio = Without(DemoPortfolio, i)

(* C23, as stated  Over any sequence of user interactions in a session,    *)
(* the only changes made to the persisted position list are appending one  *)
(* position and removing one position.                                     *)
C23_OnlyAppendAndRemove == [][IsAppend \/ IsRemoval]_portfolio

(* C26  Within one session the restore from the URL parameter p overwrites *)
(* the position list at most once: once the session is marked as restored, *)
(* a script run without a widget event and a refused add leave the list as *)
(* it is, an add appends to the list as the user left it and a delete       *)
(* removes from it, although p is still among the query parameters.         *)
C26_RestoreAtMostOnce ==
    [][(session.restored /\ session.has_p) =>
          /\ Rerun => portfolio' = portfolio
          /\ \A inp \in FormInputs :
                /\ RejectPosition(inp) => portfolio' = portfolio
                /\ AddPosition(inp) => IsAppend
          /\ \A i \in 1..Len(DemoPortfolio) :
                DeletePosition(i) => portfolio' = Without(portfolio, i)]_vars

\* the list was restored from the link and the user has changed it since
C26_Witness ==
    /\ session.restored /\ session.has_p
    /\ portfolio # Positions(session.decoded)

(* C27  After any sequence of session operations (form add, delete, URL    *)
(* restore, confirmed CSV import, reset, demo data) every element of the   *)
(* list is a position with a non-empty ticker, shares > 0 and              *)
(* cost_price >= 0.                                                        *)
C27_PositionsValid ==
    \A i \in 1..Len(portfolio) :
        /\ portfolio[i].ticker # <<>>
        /\ RGt(portfolio[i].shares, Zero)
        /\ RLe(Zero, portfolio[i].cost_price)

---------------------------------------------------------------------------
(* Properties of the script runs, under SpecScript                         *)

\* the step presents a result: the chart of the simulation or of the
\* frontier is handed to the page
PresentsSimulation == ~sim.charted /\ sim'.charted

PresentsFrontier == ~frontier.rendered /\ frontier'.rendered

\* a computation is in flight: the script is inside the call
InFlight(r) == r.phase \in {"frontier", "simulation"}

C30_FrontierLeavesGenerator ==
    [][(~frontier.computed /\ frontier'.computed) => rng' = rng]_vars

============================================================================
